---- MODULE Spec2Model ----
(***************************************************************************)
(* Realtime voice relay of src/server.ts: the tool dispatcher              *)
(* (executeTool over the in-memory knowledge base) and one relay session   *)
(* (handleRealtimeConnection: a client WebSocket paired with an upstream   *)
(* WebSocket, with function-call interception).                            *)
(* Voice page of src/unnamed/part_001: the PCM16 codec, the capture        *)
(* callback and the playback scheduler.                                    *)
(* The HTTP server's 'upgrade' listener of src/server.ts, and the cached   *)
(* datastore handle of src/unnamed/part_004 (connectToDatabase).           *)
(*                                                                         *)
(* Strings that the code searches are sequences of one-character strings,  *)
(* so that toLowerCase() and includes() are computed, not assumed.         *)
(* The sockets are `ws` WebSocket objects: readyState is one of            *)
(* CONNECTING, OPEN, CLOSING, CLOSED; send() on a CLOSING or CLOSED socket *)
(* discards the data without throwing; a failed handshake emits 'error'    *)
(* and then 'close'; an 'unexpected-response' event that has a listener    *)
(* leaves the handshake to that listener.                                  *)
(***************************************************************************)
EXTENDS Integers, Sequences, FiniteSets, TLC

VARIABLES
    clientState,    \* clientWs.readyState
    openaiState,    \* openaiWs.readyState
    peerGone,       \* sockets whose peer has ended its side (no more inbound frames)
    openaiEvents,   \* lifecycle events emitted so far on openaiWs
    wire,           \* every frame the relay has written, in program order
    fromClient,     \* frames received on clientWs, in order
    fromUpstream,   \* frames received on openaiWs, in order
    log,            \* console lines printed so far (by kind)
    discarded,      \* every frame passed to send() on a socket that was not OPEN
    toolCall,       \* dispatcher harness: the call last dispatched
    toolOutcome,    \* dispatcher harness: what executeTool did with it
    bookings,       \* the datastore's bookings collection
    cachedClient,   \* datastore handle: cachedClient (0 is null)
    cachedDb,       \* datastore handle: cachedDb (0 is null)
    mongoClients,   \* datastore handle: every MongoClient constructed so far
    dbCalls,        \* datastore handle: every connectToDatabase call so far
    upgrades,       \* HTTP server: every 'upgrade' request so far and its socket
    knowledgeBase,  \* the process's employees, aboutData and faqData
    clientWss,      \* sessions: readyState of the clientWs of every session, by session
    openaiWss,      \* sessions: readyState of the openaiWs of every session, by session
    sessionWire,    \* sessions: the frames received and written by each session (a set)
    codecCall,      \* codec harness: the conversion last applied and its input
    codecResult,    \* codec harness: what the conversion returned
    isConnected,    \* voice page: the isConnected state (which button is shown)
    pendingStarts,  \* voice page: startAssistant calls waiting in getUserMedia
    sockets,        \* voice page: readyState of every WebSocket it has created
    contexts,       \* voice page: currentTime and state of every AudioContext created
    audioContextRef, \* voice page: audioContextRef.current (0 is null)
    wsRef,          \* voice page: wsRef.current (0 is null)
    processorRef,   \* voice page: processorRef.current (0 is null)
    processors,     \* voice page: ScriptProcessorNodes still connected
    nextStartTime,  \* voice page: nextStartTimeRef.current
    audioQueue,     \* voice page: audioQueueRef.current (indices into sources)
    sources,        \* voice page: every AudioBufferSourceNode started so far
    bargeIns,       \* voice page: stopAudioPlayback calls so far
    produced,       \* voice page: every onaudioprocess callback so far
    wsSent          \* voice page: every ws.send() call so far

relayVars == <<clientState, openaiState, peerGone, openaiEvents, wire,
               fromClient, fromUpstream, log, discarded>>
toolVars == <<toolCall, toolOutcome>>
storeVars == <<bookings, cachedClient, cachedDb, mongoClients, dbCalls>>
upgradeVars == <<upgrades>>
kbVars == <<knowledgeBase>>
sessionVars == <<clientWss, openaiWss, sessionWire>>
codecVars == <<codecCall, codecResult>>
pageVars == <<isConnected, pendingStarts, sockets, contexts, audioContextRef,
              wsRef, processorRef, processors, nextStartTime, audioQueue,
              sources, bargeIns, produced, wsSent>>
vars == <<clientState, openaiState, peerGone, openaiEvents, wire,
          fromClient, fromUpstream, log, discarded, toolCall, toolOutcome, bookings,
          cachedClient, cachedDb, mongoClients, dbCalls, upgrades,
          knowledgeBase, clientWss, openaiWss, sessionWire,
          codecCall, codecResult,
          isConnected, pendingStarts, sockets, contexts, audioContextRef,
          wsRef, processorRef, processors, nextStartTime, audioQueue,
          sources, bargeIns, produced, wsSent>>

(***************************************************************************)
(* Bounds                                                                  *)
(***************************************************************************)
MaxTermLen == 2         \* longest search term drawn for the dispatcher
MaxFrames == 3          \* frames the relay receives in one session, both sockets together

(***************************************************************************)
(* Strings                                                                 *)
(***************************************************************************)
Chars == {"a", "b", "A", "B"}

LowerChar(c) == IF c = "A" THEN "a" ELSE IF c = "B" THEN "b" ELSE c

\* String.prototype.toLowerCase
toLowerCase(s) == [i \in 1..Len(s) |-> LowerChar(s[i])]

\* String.prototype.includes
includes(s, t) ==
    \E i \in 0..(Len(s) - Len(t)) : \A j \in 1..Len(t) : s[i + j] = t[j]

RECURSIVE StringsUpTo(_)
StringsUpTo(n) ==
    IF n = 0 THEN {<<>>}
    ELSE LET shorter == StringsUpTo(n - 1)
         IN  shorter \cup {Append(s, c) : s \in {x \in shorter : Len(x) = n - 1}, c \in Chars}

Terms == StringsUpTo(MaxTermLen)

(***************************************************************************)
(* Knowledge base (the three JSON files of public/, loaded once)          *)
(***************************************************************************)
employees ==
    << [name |-> <<"A", "b">>,      designation |-> <<"B", "a">>,
        email |-> <<"a">>,           phone |-> <<"b">>],
       [name |-> <<"a", "B", "a">>, designation |-> <<"b">>,
        email |-> <<"b">>,           phone |-> <<"a">>],
       [name |-> <<"B", "B">>,      designation |-> <<"A", "A">>,
        email |-> <<"a", "b">>,      phone |-> <<"b", "b">>] >>

aboutData ==
    [ company_name      |-> <<"A", "B">>,
      description       |-> <<"a", "b">>,
      closing_statement |-> <<"b", "a">>,
      services_intro    |-> <<"a">>,
      services |-> << [title |-> <<"A", "a">>, description |-> <<"b", "b">>],
                      [title |-> <<"B">>,      description |-> <<"a", "B">>] >> ]

faqData ==
    << [ title_highlight |-> <<"A", "b">>,
         faqs |-> << [question |-> <<"a", "A">>, answer |-> <<"b">>],
                     [question |-> <<"B", "a">>, answer |-> <<"A", "b">>] >> ],
       [ title_highlight |-> <<"a", "B", "B">>,
         faqs |-> << [question |-> <<"b", "b">>, answer |-> <<"a", "a">>] >> ] >>

\* The tools advertised upstream: name and required parameters
tools ==
    << [name |-> "getEmployeeByName",        required |-> <<"name">>],
       [name |-> "getEmployeeByDesignation", required |-> <<"designation">>],
       [name |-> "getAllEmployees",          required |-> <<>>],
       [name |-> "getCompanyInfo",           required |-> <<>>],
       [name |-> "getServices",              required |-> <<>>],
       [name |-> "searchFAQ",                required |-> <<"query">>],
       [name |-> "getFAQsByCategory",        required |-> <<"category">>] >>

(***************************************************************************)
(* JavaScript values                                                       *)
(***************************************************************************)
\* An argument object has each property of ArgFields, undefined when the
\* JSON text did not give it; null is the JSON value null.
ArgFields == {"name", "designation", "serviceName", "query", "category"}
Undefined == <<"undefined">>
Null == [isNull |-> TRUE]
EmptyObj == [f \in ArgFields |-> Undefined]
Obj(field, value) == [f \in ArgFields |-> IF f = field THEN value ELSE Undefined]

\* args.p.toLowerCase() throws when args is null or args.p is undefined
IsObject(o) == "isNull" \notin DOMAIN o
Has(o, p) == IsObject(o) /\ o[p] # Undefined

\* JSON text: well-formed or not, canonical (as JSON.stringify writes it) or
\* not, and the value it denotes
JSONstringify(v) == [json |-> TRUE, canon |-> TRUE, val |-> v]
Written(v) == [json |-> TRUE, canon |-> FALSE, val |-> v]
Garbage(n) == [json |-> FALSE, canon |-> FALSE, val |-> [raw |-> n]]

\* What a call does that throws instead of returning
TypeError == [threw |-> "TypeError"]
SyntaxError == [threw |-> "SyntaxError"]
Threw(r) == "threw" \in DOMAIN r

\* JSON.parse
JSONparse(text) == IF text.json THEN text.val ELSE SyntaxError

(***************************************************************************)
(* Tool execution handlers                                                 *)
(***************************************************************************)
\* a name lookup that keeps the first match only
getEmployeeByNameFirstMatch(args) ==
    IF ~Has(args, "name") THEN TypeError
    ELSE LET searchTerm == toLowerCase(args.name)
             found == SelectSeq(employees,
                                LAMBDA emp : includes(toLowerCase(emp.name), searchTerm))
         IN  IF Len(found) = 0
             THEN [success |-> FALSE,
                   message |-> <<"No employee found matching", args.name>>]
             ELSE [success |-> TRUE, employees |-> <<Head(found)>>]

getEmployeeByName(args) ==
    IF ~Has(args, "name") THEN TypeError
    ELSE LET searchTerm == toLowerCase(args.name)
             found == SelectSeq(employees,
                                LAMBDA emp : includes(toLowerCase(emp.name), searchTerm))
         IN  IF Len(found) = 0
             THEN [success |-> FALSE,
                   message |-> <<"No employee found matching", args.name>>]
             ELSE [success |-> TRUE, employees |-> found]

getEmployeeByDesignation(args) ==
    IF ~Has(args, "designation") THEN TypeError
    ELSE LET searchTerm == toLowerCase(args.designation)
             found == SelectSeq(employees,
                                LAMBDA emp : includes(toLowerCase(emp.designation), searchTerm))
         IN  IF Len(found) = 0
             THEN [success |-> FALSE,
                   message |-> <<"No employees found with designation", args.designation>>]
             ELSE [success |-> TRUE, count |-> Len(found), employees |-> found]

\* a listing that returns the directory's records as they are
getAllEmployeesFullRecords(args) ==
    [success |-> TRUE, count |-> Len(employees), employees |-> employees]


getAllEmployees(args) ==
    LET summary == [i \in 1..Len(employees) |->
                       [name |-> employees[i].name,
                        designation |-> employees[i].designation,
                        email |-> employees[i].email]]
    IN  [success |-> TRUE, count |-> Len(employees), employees |-> summary]

getCompanyInfo(args) ==
    [success |-> TRUE,
     company |-> aboutData.company_name,
     description |-> aboutData.description,
     closingStatement |-> aboutData.closing_statement]

getServices(args) ==
    IF ~IsObject(args) THEN TypeError
    ELSE IF Has(args, "serviceName") /\ args.serviceName # <<>>   \* "" is falsy
    THEN LET searchTerm == toLowerCase(args.serviceName)
             found == SelectSeq(aboutData.services,
                                LAMBDA service :
                                    \/ includes(toLowerCase(service.title), searchTerm)
                                    \/ includes(toLowerCase(service.description), searchTerm))
         IN  IF Len(found) = 0
             THEN [success |-> FALSE,
                   message |-> <<"No service found matching", args.serviceName>>]
             ELSE [success |-> TRUE, services |-> found]
    ELSE [success |-> TRUE,
          intro |-> aboutData.services_intro,
          services |-> aboutData.services]

\* a search that reads the questions only
FaqHitsQuestionOnly(category, searchTerm) ==
    LET hits == SelectSeq(category.faqs,
                          LAMBDA faq : includes(toLowerCase(faq.question), searchTerm))
    IN  [i \in 1..Len(hits) |-> [category |-> category.title_highlight,
                                 question |-> hits[i].question,
                                 answer |-> hits[i].answer]]


\* The inner forEach of searchFAQ: the matching FAQs of one category, in order
FaqHits(category, searchTerm) ==
    LET hits == SelectSeq(category.faqs,
                          LAMBDA faq : \/ includes(toLowerCase(faq.question), searchTerm)
                                       \/ includes(toLowerCase(faq.answer), searchTerm))
    IN  [i \in 1..Len(hits) |-> [category |-> category.title_highlight,
                                 question |-> hits[i].question,
                                 answer |-> hits[i].answer]]

\* The outer forEach of searchFAQ, from category i on
RECURSIVE FaqResults(_, _)
FaqResults(i, searchTerm) ==
    IF i > Len(faqData) THEN <<>>
    ELSE FaqHits(faqData[i], searchTerm) \o FaqResults(i + 1, searchTerm)

searchFAQ(args) ==
    IF ~Has(args, "query") THEN TypeError
    ELSE LET results == FaqResults(1, toLowerCase(args.query))
         IN  IF Len(results) = 0
             THEN [success |-> FALSE,
                   message |-> <<"No FAQs found matching", args.query>>]
             ELSE [success |-> TRUE, count |-> Len(results), faqs |-> results]

\* a category lookup that keeps the last match
getFAQsByCategoryLastMatch(args) ==
    IF ~Has(args, "category") THEN TypeError
    ELSE LET searchTerm == toLowerCase(args.category)
             hits == SelectSeq(faqData,
                               LAMBDA cat : includes(toLowerCase(cat.title_highlight), searchTerm))
         IN  IF Len(hits) = 0
             THEN [success |-> FALSE,
                   message |-> <<"Category not found. Available:",
                                 [i \in 1..Len(faqData) |-> faqData[i].title_highlight]>>]
             ELSE LET found == hits[Len(hits)]
                  IN  [success |-> TRUE,
                       category |-> found.title_highlight,
                       count |-> Len(found.faqs),
                       faqs |-> found.faqs]

getFAQsByCategory(args) ==
    IF ~Has(args, "category") THEN TypeError
    ELSE LET searchTerm == toLowerCase(args.category)
             hits == SelectSeq(faqData,
                               LAMBDA cat : includes(toLowerCase(cat.title_highlight), searchTerm))
         IN  IF Len(hits) = 0
             THEN [success |-> FALSE,
                   message |-> <<"Category not found. Available:",
                                 [i \in 1..Len(faqData) |-> faqData[i].title_highlight]>>]
             ELSE LET found == Head(hits)
                  IN  [success |-> TRUE,
                       category |-> found.title_highlight,
                       count |-> Len(found.faqs),
                       faqs |-> found.faqs]

\* executeTool without the getCompanyInfo case
executeToolWithoutCompanyInfo(name, args) ==
    CASE name = "getEmployeeByName"        -> getEmployeeByName(args)
      [] name = "getEmployeeByDesignation" -> getEmployeeByDesignation(args)
      [] name = "getAllEmployees"          -> getAllEmployees(args)
      [] name = "getServices"              -> getServices(args)
      [] name = "searchFAQ"                -> searchFAQ(args)
      [] name = "getFAQsByCategory"        -> getFAQsByCategory(args)
      [] OTHER -> [success |-> FALSE, message |-> <<"Unknown tool:", name>>]


\* executeTool with a default branch that throws instead of returning
executeToolDefaultThrows(name, args) ==
    CASE name = "getEmployeeByName"        -> getEmployeeByName(args)
      [] name = "getEmployeeByDesignation" -> getEmployeeByDesignation(args)
      [] name = "getAllEmployees"          -> getAllEmployees(args)
      [] name = "getCompanyInfo"           -> getCompanyInfo(args)
      [] name = "getServices"              -> getServices(args)
      [] name = "searchFAQ"                -> searchFAQ(args)
      [] name = "getFAQsByCategory"        -> getFAQsByCategory(args)
      [] OTHER -> [threw |-> "Error"]

\* function executeTool(name, args): the value returned, or what it threw
executeTool(name, args) ==
    CASE name = "getEmployeeByName"        -> getEmployeeByName(args)
      [] name = "getEmployeeByDesignation" -> getEmployeeByDesignation(args)
      [] name = "getAllEmployees"          -> getAllEmployees(args)
      [] name = "getCompanyInfo"           -> getCompanyInfo(args)
      [] name = "getServices"              -> getServices(args)
      [] name = "searchFAQ"                -> searchFAQ(args)
      [] name = "getFAQsByCategory"        -> getFAQsByCategory(args)
      [] OTHER -> [success |-> FALSE, message |-> <<"Unknown tool:", name>>]

\* The three collections as the module's top level loads them
loaded == [employees |-> employees, aboutData |-> aboutData, faqData |-> faqData]

\* an executeTool whose listing reverses the directory in place
knowledgeBaseAfterReverse(kb, name, args) ==
    IF name = "getAllEmployees"
    THEN [kb EXCEPT !.employees = [i \in 1..Len(@) |-> @[Len(@) + 1 - i]]]
    ELSE kb

\* What executeTool(name, args) leaves in the three collections: its cases
\* read them through filter, map, find, forEach and length, which leave
\* their receiver as it is, and assign to no collection and to no record
knowledgeBaseAfter(kb, name, args) == kb

(***************************************************************************)
(* Wire messages                                                           *)
(***************************************************************************)
FunctionCallDone == "response.function_call_arguments.done"

\* sessionUpdate with the tools line left out of the session object
sessionUpdateWithoutTools ==
    [type |-> "session.update",
     session |-> [modalities |-> <<"text", "audio">>,
                  voice |-> "alloy",
                  input_audio_format |-> "pcm16",
                  output_audio_format |-> "pcm16",
                  turn_detection |-> "server_vad",
                  tools |-> <<>>]]

\* The session.update the relay sends when the upstream socket opens
sessionUpdate ==
    [type |-> "session.update",
     session |-> [modalities |-> <<"text", "audio">>,
                  voice |-> "alloy",
                  input_audio_format |-> "pcm16",
                  output_audio_format |-> "pcm16",
                  turn_detection |-> "server_vad",
                  tools |-> tools]]

functionCallOutput(call_id, result) ==
    [type |-> "conversation.item.create",
     item |-> [type |-> "function_call_output",
               call_id |-> call_id,
               output |-> JSONstringify(result)]]

responseCreate == [type |-> "response.create"]

\* Frames a client sends: an audio append, a response.create of its own, and
\* a frame that is not JSON
ClientFrames ==
    { Garbage(0),
      Written([type |-> "input_audio_buffer.append", audio |-> 1]),
      JSONstringify(responseCreate) }

\* The call identifiers upstream uses
CallIds == {1, 2}

FunctionCall(call_id, name, arguments) ==
    [type |-> FunctionCallDone, call_id |-> call_id,
     name |-> name, arguments |-> arguments]

\* Frames upstream sends: a call that succeeds (under each identifier), a call
\* that lacks its required argument, a call whose arguments are not JSON, a
\* call of a tool that does not exist, an event the relay logs, and a binary
\* frame
UpstreamFrames ==
    { Written(FunctionCall(id, "getAllEmployees", JSONstringify(EmptyObj))) : id \in CallIds }
    \cup { Written(FunctionCall(1, "getEmployeeByName", JSONstringify(EmptyObj))),
           Written(FunctionCall(1, "getEmployeeByName", Garbage(1))),
           Written(FunctionCall(1, "noSuchTool", JSONstringify(EmptyObj))),
           Written([type |-> "response.done"]),
           Garbage(2) }

\* One write of the relay: the socket, the frame, and the handler that wrote it
Sent(to, frame, by) == [to |-> to, frame |-> frame, by |-> by]

\* WebSocket.send: a socket that is not OPEN transmits nothing
send(w, readyState, to, frame, by) ==
    IF readyState = "OPEN" THEN Append(w, Sent(to, frame, by)) ELSE w

\* WebSocket.send on a CLOSING or CLOSED socket: the call is made and the
\* data goes nowhere
sendDiscards(d, readyState, to, frame, by) ==
    IF readyState = "OPEN" THEN d ELSE Append(d, Sent(to, frame, by))

(***************************************************************************)
(* Audio codec of the voice page (src/unnamed/part_001).  A Float32Array   *)
(* element is a rational num/den with den > 0, or NaN; an ArrayBuffer is a *)
(* sequence of bytes; base64 text is the byte string it stands for, or     *)
(* text that atob() rejects.                                               *)
(***************************************************************************)
SampleDen == 1000       \* samples are drawn on the grid of multiples of 1/SampleDen
MaxPayloadBytes == 3    \* longest audio payload drawn, in bytes

Hex8000 == 32768
Hex7fff == 32767

Rational(n, d) == [num |-> n, den |-> d]
NaN == [nan |-> TRUE]
IsNaN(x) == "nan" \in DOMAIN x

\* Math.min(1, x) and Math.max(-1, x)
MathMin1(x) == IF IsNaN(x) THEN NaN ELSE IF x.num > x.den THEN Rational(1, 1) ELSE x
MathMaxMinus1(x) == IF IsNaN(x) THEN NaN ELSE IF x.num < -x.den THEN Rational(-1, 1) ELSE x

\* a conversion that writes the sample as it is
ClampMissing(x) == x

\* const s = Math.max(-1, Math.min(1, float32Array[i]))
Clamp(x) == MathMaxMinus1(MathMin1(x))

\* a conversion that scales both signs by 0x8000
ScaleOneFactor(s) == IF IsNaN(s) THEN NaN ELSE Rational(s.num * Hex8000, s.den)

\* s < 0 ? s * 0x8000 : s * 0x7fff
Scale(s) ==
    IF IsNaN(s) THEN NaN
    ELSE IF s.num < 0 THEN Rational(s.num * Hex8000, s.den)
    ELSE Rational(s.num * Hex7fff, s.den)

\* the integer part of a rational, rounding toward zero
Truncate(x) == IF x.num >= 0 THEN x.num \div x.den ELSE -((-x.num) \div x.den)

\* DataView.setInt16 stores ToInt16(value): NaN becomes 0, the integer part
\* is taken modulo 2^16 into the signed range
ToInt16(x) == IF IsNaN(x) THEN 0 ELSE ((Truncate(x) + 32768) % 65536) - 32768

\* the two bytes setInt16(offset, value, true) writes, low byte first
LittleEndian(v) == <<(v % 65536) % 256, (v % 65536) \div 256>>

floatTo16BitPCM(float32Array) ==
    [o \in 1..(Len(float32Array) * 2) |->
        LittleEndian(ToInt16(Scale(Clamp(float32Array[(o + 1) \div 2]))))[2 - (o % 2)]]

\* btoa of the binary string built from the buffer's bytes
arrayBufferToBase64(buffer) == [b64 |-> buffer]
NotBase64 == [invalid |-> TRUE]
IsBase64(text) == "b64" \in DOMAIN text
atob(text) == text.b64

\* a decoder that views the payload's bytes as they are
PaddedBytesUnpadded(binaryString) == binaryString

\* new Uint8Array(len % 2 === 0 ? len : len + 1), filled from the payload
PaddedBytes(binaryString) ==
    LET len == Len(binaryString)
    IN  [i \in 1..(IF len % 2 = 0 THEN len ELSE len + 1) |->
            IF i <= len THEN binaryString[i] ELSE 0]

\* new Int16Array(bytes.buffer), for a buffer of even length
Int16Array(bytes) ==
    [i \in 1..(Len(bytes) \div 2) |->
        LET u == bytes[2 * i - 1] + 256 * bytes[2 * i]
        IN  IF u >= 32768 THEN u - 65536 ELSE u]

\* float32[i] = pcm16[i] / 0x7fff
Float32Of(pcm16) == [i \in 1..Len(pcm16) |-> Rational(pcm16[i], Hex7fff)]

\* the decoding steps of playAudioChunk; atob throws on text that is not
\* base64 and Int16Array throws on a buffer of odd length
decodeAudio(base64Audio) ==
    IF ~IsBase64(base64Audio) THEN [threw |-> "InvalidCharacterError"]
    ELSE LET bytes == PaddedBytes(atob(base64Audio))
         IN  IF Len(bytes) % 2 # 0 THEN [threw |-> "RangeError"]
             ELSE [float32 |-> Float32Of(Int16Array(bytes))]

(***************************************************************************)
(* handleRealtimeConnection                                                *)
(***************************************************************************)
NoCall == [name |-> "", args |-> Null]
NoOutcome == [pending |-> TRUE]

Init ==
    /\ clientState = "OPEN"
    /\ openaiState = "CONNECTING"
    /\ peerGone = {}
    /\ openaiEvents = {}
    /\ wire = <<>>
    /\ fromClient = <<>>
    /\ fromUpstream = <<>>
    /\ log = {"Client connected to realtime"}
    /\ discarded = <<>>
    /\ toolCall = NoCall
    /\ toolOutcome = NoOutcome
    /\ bookings = <<>>
    /\ cachedClient = 0
    /\ cachedDb = 0
    /\ mongoClients = <<>>
    /\ dbCalls = <<>>
    /\ upgrades = <<>>
    /\ knowledgeBase = loaded
    /\ clientWss = <<>>
    /\ openaiWss = <<>>
    /\ sessionWire = {}
    /\ codecCall = [op |-> "none"]
    /\ codecResult = NoOutcome
    /\ isConnected = FALSE
    /\ pendingStarts = 0
    /\ sockets = <<>>
    /\ contexts = <<>>
    /\ audioContextRef = 0
    /\ wsRef = 0
    /\ processorRef = 0
    /\ processors = {}
    /\ nextStartTime = 0
    /\ audioQueue = <<>>
    /\ sources = <<>>
    /\ bargeIns = 0
    /\ produced = <<>>
    /\ wsSent = <<>>

\* What the open handler writes upstream
OnOpenWrites(w) == send(w, "OPEN", "openai", JSONstringify(sessionUpdate), "open")

\* openaiWs.on("open")
OpenaiOpen ==
    /\ openaiState = "CONNECTING"
    /\ "unexpected-response" \notin openaiEvents
    /\ openaiState' = "OPEN"
    /\ openaiEvents' = openaiEvents \cup {"open"}
    /\ log' = log \cup {"Connected to OpenAI Realtime API"}
    /\ wire' = OnOpenWrites(wire)
    /\ UNCHANGED <<clientState, peerGone, fromClient, fromUpstream>>
    /\ UNCHANGED <<discarded, toolVars, storeVars, upgradeVars, codecVars, pageVars, kbVars, sessionVars>>

\* clientWs.on("message") writing without reading openaiWs.readyState, on a
\* transport that keeps what is written until the socket opens
ClientOnMessageWireQueued(frame) ==
    LET message == JSONparse(frame)
    IN  IF Threw(message) THEN wire
        ELSE Append(wire, Sent("openai", JSONstringify(message), "client"))


\* clientWs.on("message") forwarding the received data without parsing it
ClientOnMessageWireRaw(frame) ==
    IF openaiState = "OPEN"
    THEN send(wire, openaiState, "openai", frame, "client")
    ELSE wire

\* clientWs.on("message") with the readyState test inverted (!== OPEN)
ClientOnMessageWireInvertedGuard(frame) ==
    LET message == JSONparse(frame)
    IN  IF Threw(message) THEN wire
        ELSE IF openaiState # "OPEN"
             THEN send(wire, openaiState, "openai", JSONstringify(message), "client")
             ELSE wire

\* The body of clientWs.on("message"): what is written, and what is logged
ClientOnMessageWire(frame) ==
    LET message == JSONparse(frame)
    IN  IF Threw(message) THEN wire
        ELSE IF openaiState = "OPEN"
             THEN send(wire, openaiState, "openai", JSONstringify(message), "client")
             ELSE wire

ClientOnMessageLog(frame) ==
    IF Threw(JSONparse(frame)) THEN log \cup {"Error parsing client message"} ELSE log

\* clientWs.on("message")
ClientMessage(frame) ==
    /\ \/ clientState = "OPEN"
       \/ clientState = "CLOSING" /\ "client" \notin peerGone
    /\ Len(fromClient) + Len(fromUpstream) < MaxFrames
    /\ fromClient' = Append(fromClient, frame)
    /\ wire' = ClientOnMessageWire(frame)
    /\ log' = ClientOnMessageLog(frame)
    /\ UNCHANGED <<clientState, openaiState, peerGone, openaiEvents, fromUpstream>>
    /\ UNCHANGED <<discarded, toolVars, storeVars, upgradeVars, codecVars, pageVars, kbVars, sessionVars>>

\* The tool-call branch of openaiWs.on("message"): JSON.parse(argsString),
\* executeTool, the two sends; a throw leaves through the inner catch
ToolOutcome(msg) ==
    LET args == JSONparse(msg.arguments)
    IN  IF Threw(args) THEN args ELSE executeTool(msg.name, args)

\* the tool-call branch if it answered only while the client is connected
OnToolCallWritesClientOpenOnly(w, msg) ==
    LET result == ToolOutcome(msg)
    IN  IF Threw(result) \/ clientState # "OPEN" THEN w
        ELSE send(send(w, openaiState, "openai",
                       JSONstringify(functionCallOutput(msg.call_id, result)), "tool"),
                  openaiState, "openai", JSONstringify(responseCreate), "tool")


OnToolCallWrites(w, msg) ==
    LET result == ToolOutcome(msg)
    IN  IF Threw(result) THEN w
        ELSE send(send(w, openaiState, "openai",
                       JSONstringify(functionCallOutput(msg.call_id, result)), "tool"),
                  openaiState, "openai", JSONstringify(responseCreate), "tool")

\* openaiWs.on("message") writing to clientWs without reading its readyState,
\* on a transport that keeps what is written
OpenaiOnMessageWireUnguarded(frame) ==
    LET forwarded == Append(wire, Sent("client", frame, "relay"))
        msg == JSONparse(frame)
    IN  IF Threw(msg) THEN forwarded
        ELSE IF msg.type = FunctionCallDone THEN OnToolCallWrites(forwarded, msg)
        ELSE forwarded

\* openaiWs.on("message") with JSON.parse above the forward, so that a throw
\* skips the forward
OpenaiOnMessageWireParseFirst(frame) ==
    LET msg == JSONparse(frame)
        forwarded == IF clientState = "OPEN"
                     THEN send(wire, clientState, "client", frame, "relay")
                     ELSE wire
    IN  IF Threw(msg) THEN wire
        ELSE IF msg.type = FunctionCallDone THEN OnToolCallWrites(forwarded, msg)
        ELSE forwarded


\* What the tool-call branch passes to send() while openaiWs is not OPEN
OnToolCallDiscarded(d, msg) ==
    LET result == ToolOutcome(msg)
    IN  IF Threw(result) THEN d
        ELSE sendDiscards(sendDiscards(d, openaiState, "openai",
                                       JSONstringify(functionCallOutput(msg.call_id, result)),
                                       "tool"),
                          openaiState, "openai", JSONstringify(responseCreate), "tool")

\* openaiWs.on("message") with the inspection moved above the forward
OpenaiOnMessageWireInspectFirst(frame) ==
    LET msg == JSONparse(frame)
        inspected == IF Threw(msg) THEN wire
                     ELSE IF msg.type = FunctionCallDone THEN OnToolCallWrites(wire, msg)
                     ELSE wire
    IN  IF clientState = "OPEN"
        THEN send(inspected, clientState, "client", frame, "relay")
        ELSE inspected

\* The body of openaiWs.on("message"): forward, then inspect
OpenaiOnMessageWire(frame) ==
    LET forwarded == IF clientState = "OPEN"
                     THEN send(wire, clientState, "client", frame, "relay")
                     ELSE wire
        msg == JSONparse(frame)
    IN  IF Threw(msg) THEN forwarded
        ELSE IF msg.type = FunctionCallDone THEN OnToolCallWrites(forwarded, msg)
        ELSE forwarded

\* openaiWs.on("message"): the collections after the tool-call branch, which
\* reaches executeTool when the arguments are JSON
OnMessageKnowledgeBase(kb, frame) ==
    LET msg == JSONparse(frame)
    IN  IF Threw(msg) THEN kb
        ELSE IF msg.type = FunctionCallDone /\ ~Threw(JSONparse(msg.arguments))
             THEN knowledgeBaseAfter(kb, msg.name, JSONparse(msg.arguments))
             ELSE kb

\* openaiWs.on("message"): the forward is guarded, the tool-call branch is not
OpenaiOnMessageDiscarded(frame) ==
    LET msg == JSONparse(frame)
    IN  IF Threw(msg) THEN discarded
        ELSE IF msg.type = FunctionCallDone THEN OnToolCallDiscarded(discarded, msg)
        ELSE discarded

OpenaiOnMessageLog(frame) ==
    LET msg == JSONparse(frame)
    IN  IF Threw(msg) THEN log
        ELSE log \cup {"OpenAI message"}
                 \cup (IF msg.type = FunctionCallDone
                       THEN {"Tool call",
                             IF Threw(ToolOutcome(msg)) THEN "Error executing tool"
                                                        ELSE "Tool result"}
                       ELSE {})
                 \cup (IF msg.type = "response.done" THEN {"Response Done details"} ELSE {})
                 \cup (IF msg.type = "error" THEN {"OpenAI API Error"} ELSE {})

\* openaiWs.on("message")
OpenaiMessage(frame) ==
    /\ \/ openaiState = "OPEN"
       \/ openaiState = "CLOSING" /\ "openai" \notin peerGone
    /\ Len(fromClient) + Len(fromUpstream) < MaxFrames
    /\ fromUpstream' = Append(fromUpstream, frame)
    /\ wire' = OpenaiOnMessageWire(frame)
    /\ discarded' = OpenaiOnMessageDiscarded(frame)
    /\ log' = OpenaiOnMessageLog(frame)
    /\ knowledgeBase' = OnMessageKnowledgeBase(knowledgeBase, frame)
    /\ UNCHANGED <<clientState, openaiState, peerGone, openaiEvents, fromClient>>
    /\ UNCHANGED <<toolVars, storeVars, upgradeVars, codecVars, pageVars, sessionVars>>

\* clientWs.on("close"): if (openaiWs.readyState === OPEN) openaiWs.close()
OpenaiAfterClientClose == IF openaiState = "OPEN" THEN "CLOSING" ELSE openaiState

\* openaiWs.on("close") without the clientWs.close() call
ClientAfterOpenaiCloseNoCascade == clientState

\* openaiWs.on("close"): if (clientWs.readyState === OPEN) clientWs.close()
ClientAfterOpenaiClose == IF clientState = "OPEN" THEN "CLOSING" ELSE clientState

\* The client ends its side: clientWs goes CLOSING until the socket is gone
ClientPeerClose ==
    /\ clientState = "OPEN"
    /\ clientState' = "CLOSING"
    /\ peerGone' = peerGone \cup {"client"}
    /\ UNCHANGED <<openaiState, openaiEvents, wire, fromClient, fromUpstream, log>>
    /\ UNCHANGED <<discarded, toolVars, storeVars, upgradeVars, codecVars, pageVars, kbVars, sessionVars>>

\* clientWs emits 'close'
ClientClose ==
    /\ clientState = "CLOSING"
    /\ clientState' = "CLOSED"
    /\ peerGone' = peerGone \cup {"client"}
    /\ log' = log \cup {"Client disconnected"}
    /\ openaiState' = OpenaiAfterClientClose
    /\ UNCHANGED <<openaiEvents, wire, fromClient, fromUpstream>>
    /\ UNCHANGED <<discarded, toolVars, storeVars, upgradeVars, codecVars, pageVars, kbVars, sessionVars>>

\* Upstream ends its side of an open connection
OpenaiPeerClose ==
    /\ openaiState = "OPEN"
    /\ openaiState' = "CLOSING"
    /\ peerGone' = peerGone \cup {"openai"}
    /\ UNCHANGED <<clientState, openaiEvents, wire, fromClient, fromUpstream, log>>
    /\ UNCHANGED <<discarded, toolVars, storeVars, upgradeVars, codecVars, pageVars, kbVars, sessionVars>>

\* openaiWs.on("error") on an open connection: the socket is torn down
OpenaiError ==
    /\ openaiState = "OPEN"
    /\ openaiState' = "CLOSING"
    /\ peerGone' = peerGone \cup {"openai"}
    /\ openaiEvents' = openaiEvents \cup {"error"}
    /\ log' = log \cup {"OpenAI WebSocket error"}
    /\ UNCHANGED <<clientState, wire, fromClient, fromUpstream>>
    /\ UNCHANGED <<discarded, toolVars, storeVars, upgradeVars, codecVars, pageVars, kbVars, sessionVars>>

\* openaiWs emits 'close'
OpenaiClose ==
    /\ openaiState = "CLOSING"
    /\ openaiState' = "CLOSED"
    /\ peerGone' = peerGone \cup {"openai"}
    /\ openaiEvents' = openaiEvents \cup {"close"}
    /\ log' = log \cup {"OpenAI connection closed"}
    /\ clientState' = ClientAfterOpenaiClose
    /\ UNCHANGED <<wire, fromClient, fromUpstream>>
    /\ UNCHANGED <<discarded, toolVars, storeVars, upgradeVars, codecVars, pageVars, kbVars, sessionVars>>

\* The dial fails: openaiWs emits 'error' and then 'close' without opening
OpenaiDialError ==
    /\ openaiState = "CONNECTING"
    /\ openaiState' = "CLOSED"
    /\ peerGone' = peerGone \cup {"openai"}
    /\ openaiEvents' = openaiEvents \cup {"error", "close"}
    /\ log' = log \cup {"OpenAI WebSocket error", "OpenAI connection closed"}
    /\ clientState' = ClientAfterOpenaiClose
    /\ UNCHANGED <<wire, fromClient, fromUpstream>>
    /\ UNCHANGED <<discarded, toolVars, storeVars, upgradeVars, codecVars, pageVars, kbVars, sessionVars>>

\* openaiWs.on("unexpected-response"): the listener only reads the body
OpenaiUnexpectedResponse ==
    /\ openaiState = "CONNECTING"
    /\ "unexpected-response" \notin openaiEvents
    /\ openaiEvents' = openaiEvents \cup {"unexpected-response"}
    /\ UNCHANGED <<clientState, openaiState, peerGone, wire, fromClient, fromUpstream, log>>
    /\ UNCHANGED <<discarded, toolVars, storeVars, upgradeVars, codecVars, pageVars, kbVars, sessionVars>>

\* res.on("end") of the rejected handshake
ResponseEnd ==
    /\ "unexpected-response" \in openaiEvents
    /\ "OpenAI unexpected response" \notin log
    /\ log' = log \cup {"OpenAI unexpected response"}
    /\ UNCHANGED <<clientState, openaiState, peerGone, openaiEvents,
                   wire, fromClient, fromUpstream>>
    /\ UNCHANGED <<discarded, toolVars, storeVars, upgradeVars, codecVars, pageVars, kbVars, sessionVars>>

Next ==
    \/ OpenaiOpen
    \/ \E frame \in ClientFrames : ClientMessage(frame)
    \/ \E frame \in UpstreamFrames : OpenaiMessage(frame)
    \/ ClientPeerClose
    \/ ClientClose
    \/ OpenaiPeerClose
    \/ OpenaiError
    \/ OpenaiClose
    \/ OpenaiDialError
    \/ OpenaiUnexpectedResponse
    \/ ResponseEnd

Spec == Init /\ [][Next]_vars

\* ws completes every close it has begun (the closing handshake is bounded by
\* a timer), and the rejected handshake's response body ends
FairSpec ==
    /\ Spec
    /\ WF_vars(ClientClose)
    /\ WF_vars(OpenaiClose)
    /\ WF_vars(ResponseEnd)

(***************************************************************************)
(* The dispatcher on its own: executeTool applied to every drawn call      *)
(***************************************************************************)
ToolNames == {tools[i].name : i \in 1..Len(tools)} \cup {"noSuchTool", "createBooking"}

\* the argument object { name, email, phone }
BookingArgs(name, email, phone) ==
    [f \in ArgFields \cup {"email", "phone"} |->
        CASE f = "name" -> name
          [] f = "email" -> email
          [] f = "phone" -> phone
          [] OTHER -> Undefined]

ToolArgs ==
    {Null, EmptyObj} \cup {Obj(f, t) : f \in ArgFields, t \in Terms}
        \cup {BookingArgs(t, <<"a">>, <<"b">>) : t \in Terms}

\* executeTool reads nothing that a dispatch changes: every call is drawn
\* and dispatched from the state after load
Dispatch(name, args) ==
    /\ toolCall = NoCall
    /\ toolCall' = [name |-> name, args |-> args]
    /\ toolOutcome' = executeTool(name, args)
    /\ knowledgeBase' = knowledgeBaseAfter(knowledgeBase, name, args)
    /\ UNCHANGED <<relayVars, storeVars, upgradeVars, codecVars, pageVars, sessionVars>>

ToolNext == \E name \in ToolNames, args \in ToolArgs : Dispatch(name, args)

ToolSpec == Init /\ [][ToolNext]_vars

(***************************************************************************)
(* The codec on its own: the conversions applied to every drawn input      *)
(***************************************************************************)
Samples == {Rational(n, SampleDen) : n \in (-2 * SampleDen)..(2 * SampleDen)} \cup {NaN}
Float32Arrays ==
    {<<x>> : x \in Samples}
        \cup {<<>>, <<Rational(-SampleDen, SampleDen), Rational(1, SampleDen), NaN>>}

PayloadBytes == {0, 1, 127, 128, 255}
BytesUpTo(n) == UNION {[1..k -> PayloadBytes] : k \in 0..n}
Payloads == {arrayBufferToBase64(b) : b \in BytesUpTo(MaxPayloadBytes)} \cup {NotBase64}

Encode(float32Array) ==
    /\ codecCall.op = "none"
    /\ codecCall' = [op |-> "floatTo16BitPCM", input |-> float32Array]
    /\ codecResult' = [buffer |-> floatTo16BitPCM(float32Array)]
    /\ UNCHANGED <<relayVars, toolVars, storeVars, upgradeVars, pageVars, kbVars, sessionVars>>

Decode(base64Audio) ==
    /\ codecCall.op = "none"
    /\ codecCall' = [op |-> "decode", input |-> base64Audio]
    /\ codecResult' = decodeAudio(base64Audio)
    /\ UNCHANGED <<relayVars, toolVars, storeVars, upgradeVars, pageVars, kbVars, sessionVars>>

\* a captured frame encoded by the page and played back by a page
RoundTrip(float32Array) ==
    /\ codecCall.op = "none"
    /\ codecCall' = [op |-> "roundTrip", input |-> float32Array]
    /\ codecResult' = decodeAudio(arrayBufferToBase64(floatTo16BitPCM(float32Array)))
    /\ UNCHANGED <<relayVars, toolVars, storeVars, upgradeVars, pageVars, kbVars, sessionVars>>

CodecNext ==
    \/ \E float32Array \in Float32Arrays : Encode(float32Array)
    \/ \E base64Audio \in Payloads : Decode(base64Audio)
    \/ \E float32Array \in Float32Arrays : RoundTrip(float32Array)

CodecSpec == Init /\ [][CodecNext]_vars

(***************************************************************************)
(* VoiceAssistantPage (src/unnamed/part_001).  Every startAssistant run    *)
(* creates one AudioContext and one WebSocket, so context k and socket k   *)
(* belong together; the processor created when socket k opens is           *)
(* processor k.  Times are counted in sample periods of the 24000 Hz       *)
(* playback buffer.  The browser delivers 'message' events only while the  *)
(* socket is OPEN, and 'audioprocess' events only while the processor is   *)
(* connected and its context is running.                                   *)
(***************************************************************************)
MaxClock == 2           \* largest currentTime an AudioContext reaches
MaxPageEvents == 3      \* chunks scheduled, barge-ins and audioprocess callbacks

\* the startAssistant runs that are followed
StartIds == {1, 2}

AudioDelta(delta) == Written([type |-> "response.audio.delta", delta |-> delta])
SpeechStarted == Written([type |-> "input_audio_buffer.speech_started"])
ServerMessages ==
    {AudioDelta(NotBase64), AudioDelta(arrayBufferToBase64(<<>>)),
     AudioDelta(arrayBufferToBase64(<<0, 128, 255>>)),
     SpeechStarted, Written([type |-> "response.audio.done"]), Garbage(0)}

CaptureFrames ==
    {<<Rational(SampleDen, SampleDen)>>, <<Rational(-2 * SampleDen, SampleDen), NaN>>}

\* the Start button is shown while isConnected is false
ClickStart ==
    /\ ~isConnected
    /\ Len(sockets) + pendingStarts + 1 \in StartIds
    /\ pendingStarts' = pendingStarts + 1
    /\ UNCHANGED <<isConnected, sockets, contexts, audioContextRef, wsRef,
                   processorRef, processors, nextStartTime, audioQueue,
                   sources, bargeIns, produced, wsSent>>
    /\ UNCHANGED <<relayVars, toolVars, storeVars, upgradeVars, codecVars, kbVars, sessionVars>>

\* getUserMedia rejects: the catch block only sets the status
GetUserMediaRejected ==
    /\ pendingStarts > 0
    /\ pendingStarts' = pendingStarts - 1
    /\ UNCHANGED <<isConnected, sockets, contexts, audioContextRef, wsRef,
                   processorRef, processors, nextStartTime, audioQueue,
                   sources, bargeIns, produced, wsSent>>
    /\ UNCHANGED <<relayVars, toolVars, storeVars, upgradeVars, codecVars, kbVars, sessionVars>>

\* startAssistant after getUserMedia resolves
StartAssistant ==
    /\ pendingStarts > 0
    /\ pendingStarts' = pendingStarts - 1
    /\ contexts' = Append(contexts, [currentTime |-> 0, state |-> "running"])
    /\ audioContextRef' = Len(contexts) + 1
    /\ sockets' = Append(sockets, "CONNECTING")
    /\ wsRef' = Len(sockets) + 1
    /\ UNCHANGED <<isConnected, processorRef, processors, nextStartTime,
                   audioQueue, sources, bargeIns, produced, wsSent>>
    /\ UNCHANGED <<relayVars, toolVars, storeVars, upgradeVars, codecVars, kbVars, sessionVars>>

\* one sample period passes: the clock of every running AudioContext advances
Tick ==
    /\ \E k \in 1..Len(contexts) : contexts[k].state = "running"
    /\ \A k \in 1..Len(contexts) : contexts[k].currentTime < MaxClock
    /\ contexts' = [k \in 1..Len(contexts) |->
                        IF contexts[k].state = "running"
                        THEN [contexts[k] EXCEPT !.currentTime = @ + 1]
                        ELSE contexts[k]]
    /\ UNCHANGED <<isConnected, pendingStarts, sockets, audioContextRef, wsRef,
                   processorRef, processors, nextStartTime, audioQueue,
                   sources, bargeIns, produced, wsSent>>
    /\ UNCHANGED <<relayVars, toolVars, storeVars, upgradeVars, codecVars, kbVars, sessionVars>>

\* an open handler that moves the cursor past its old value
CursorOnOpenAdvanced == nextStartTime + 1


\* the cursor that ws.onopen leaves
CursorOnOpen == 0

\* ws.onopen, with startAudioCapture(stream, audioContext, ws)
WsOpen(k) ==
    /\ sockets[k] = "CONNECTING"
    /\ sockets' = [sockets EXCEPT ![k] = "OPEN"]
    /\ isConnected' = TRUE
    /\ nextStartTime' = CursorOnOpen
    /\ processorRef' = k
    /\ processors' = processors \cup {k}
    /\ UNCHANGED <<pendingStarts, contexts, audioContextRef, wsRef, audioQueue,
                   sources, bargeIns, produced, wsSent>>
    /\ UNCHANGED <<relayVars, toolVars, storeVars, upgradeVars, codecVars, kbVars, sessionVars>>

\* a callback that encodes and sends whatever the socket's state
CaptureSendsUnguarded(readyState) == TRUE

\* if (ws.readyState !== WebSocket.OPEN) return;
CaptureSends(readyState) == readyState = "OPEN"

appendEvent(inputData) ==
    JSONstringify([type |-> "input_audio_buffer.append",
                   audio |-> arrayBufferToBase64(floatTo16BitPCM(inputData))])

\* processor.onaudioprocess of processor k
AudioProcess(k, inputData) ==
    /\ k \in processors
    /\ contexts[k].state = "running"
    /\ Len(sources) + bargeIns + Len(produced) < MaxPageEvents
    /\ produced' = Append(produced, [ws |-> k, readyState |-> sockets[k],
                                     inputData |-> inputData])
    /\ wsSent' = IF CaptureSends(sockets[k])
                 THEN Append(wsSent, [ws |-> k, readyState |-> sockets[k],
                                      data |-> appendEvent(inputData)])
                 ELSE wsSent
    /\ UNCHANGED <<isConnected, pendingStarts, sockets, contexts, audioContextRef,
                   wsRef, processorRef, processors, nextStartTime, audioQueue,
                   sources, bargeIns>>
    /\ UNCHANGED <<relayVars, toolVars, storeVars, upgradeVars, codecVars, kbVars, sessionVars>>

\* source.stop() on every source of the queue
StopAll(srcs, queue) ==
    [i \in 1..Len(srcs) |->
        IF \E j \in 1..Len(queue) : queue[j] = i
        THEN [srcs[i] EXCEPT !.stopped = TRUE] ELSE srcs[i]]

\* a barge-in that moves the cursor to the clock of the current context
CursorAfterStopClock == contexts[audioContextRef].currentTime


\* a barge-in that keeps the cursor
CursorAfterStopStale == nextStartTime

\* nextStartTimeRef.current = 0 in stopAudioPlayback
CursorAfterStop == 0

stopAudioPlayback ==
    IF audioContextRef # 0
    THEN /\ sources' = StopAll(sources, audioQueue)
         /\ audioQueue' = <<>>
         /\ nextStartTime' = CursorAfterStop
         /\ bargeIns' = bargeIns + 1
    ELSE UNCHANGED <<sources, audioQueue, nextStartTime, bargeIns>>

\* buffer.duration of createBuffer(1, length, 24000)
duration(float32) == Len(float32)

\* Math.max(currentTime, nextStartTimeRef.current)
StartTime(currentTime, cursor) == IF currentTime >= cursor THEN currentTime ELSE cursor

\* createBuffer throws on a length of zero; every exception is caught and logged
playAudioChunk(base64Audio) ==
    LET decoded == decodeAudio(base64Audio)
    IN  IF audioContextRef = 0 \/ Threw(decoded) \/ Len(decoded.float32) = 0
        THEN UNCHANGED <<sources, audioQueue, nextStartTime, bargeIns>>
        ELSE LET currentTime == contexts[audioContextRef].currentTime
                 startTime == StartTime(currentTime, nextStartTime)
             IN  /\ sources' = Append(sources,
                        [ctx |-> audioContextRef, start |-> startTime,
                         duration |-> duration(decoded.float32),
                         stopped |-> FALSE, currentTime |-> currentTime,
                         cursor |-> nextStartTime, epoch |-> bargeIns])
                 /\ nextStartTime' = startTime + duration(decoded.float32)
                 /\ audioQueue' = Append(audioQueue, Len(sources) + 1)
                 /\ UNCHANGED bargeIns

\* ws.onmessage of socket k: handleServerMessage(event.data)
WsMessage(k, data) ==
    /\ sockets[k] = "OPEN"
    /\ Len(sources) + bargeIns + Len(produced) < MaxPageEvents
    /\ LET message == JSONparse(data)
       IN  IF Threw(message)
           THEN UNCHANGED <<sources, audioQueue, nextStartTime, bargeIns>>
           ELSE IF message.type = "response.audio.delta"
           THEN playAudioChunk(message.delta)
           ELSE IF message.type = "input_audio_buffer.speech_started"
           THEN stopAudioPlayback
           ELSE UNCHANGED <<sources, audioQueue, nextStartTime, bargeIns>>
    /\ UNCHANGED <<isConnected, pendingStarts, sockets, contexts, audioContextRef,
                   wsRef, processorRef, processors, produced, wsSent>>
    /\ UNCHANGED <<relayVars, toolVars, storeVars, upgradeVars, codecVars, kbVars, sessionVars>>

\* cleanup(): the refs' processor, context and queued sources
ContextsAfterCleanup ==
    IF audioContextRef = 0 THEN contexts
    ELSE [contexts EXCEPT ![audioContextRef].state = "closed"]

cleanup ==
    /\ processors' = processors \ {processorRef}
    /\ contexts' = ContextsAfterCleanup
    /\ sources' = StopAll(sources, audioQueue)
    /\ audioQueue' = <<>>

\* ws.onclose of socket k: the server or the network ended the connection,
\* the handshake failed, or a close() completed
WsClose(k) ==
    /\ sockets[k] # "CLOSED"
    /\ sockets' = [sockets EXCEPT ![k] = "CLOSED"]
    /\ isConnected' = FALSE
    /\ cleanup
    /\ UNCHANGED <<pendingStarts, audioContextRef, wsRef, processorRef,
                   nextStartTime, bargeIns, produced, wsSent>>
    /\ UNCHANGED <<relayVars, toolVars, storeVars, upgradeVars, codecVars, kbVars, sessionVars>>

\* wsRef.current?.close()
SocketsAfterStop ==
    IF wsRef # 0 /\ sockets[wsRef] \in {"CONNECTING", "OPEN"}
    THEN [sockets EXCEPT ![wsRef] = "CLOSING"] ELSE sockets

\* the Stop button is shown while isConnected is true
StopAssistant ==
    /\ isConnected
    /\ sockets' = SocketsAfterStop
    /\ cleanup
    /\ UNCHANGED <<isConnected, pendingStarts, audioContextRef, wsRef,
                   processorRef, nextStartTime, bargeIns, produced, wsSent>>
    /\ UNCHANGED <<relayVars, toolVars, storeVars, upgradeVars, codecVars, kbVars, sessionVars>>

PageNext ==
    \/ ClickStart
    \/ GetUserMediaRejected
    \/ StartAssistant
    \/ Tick
    \/ \E k \in 1..Len(sockets) : WsOpen(k)
    \/ \E k \in 1..Len(sockets), inputData \in CaptureFrames : AudioProcess(k, inputData)
    \/ \E k \in 1..Len(sockets), data \in ServerMessages : WsMessage(k, data)
    \/ \E k \in 1..Len(sockets) : WsClose(k)
    \/ StopAssistant

PageSpec == Init /\ [][PageNext]_vars

(***************************************************************************)
(* connectToDatabase (src/unnamed/part_004).  A call runs to its await in  *)
(* one step and the driver settles client.connect() in a later step, so    *)
(* calls made by overlapping requests interleave at the await.  Client k   *)
(* is the k-th MongoClient constructed and Db k the Db that client.db()    *)
(* returns for it.                                                         *)
(***************************************************************************)
MaxDbCalls == 4         \* connectToDatabase calls made in one process

\* if (cachedClient && cachedDb)
CacheHit == cachedClient # 0 /\ cachedDb # 0

\* client.db()
db(client) == client

\* connectToDatabase() up to its return on a cache hit, or else up to
\* await client.connect()
ConnectToDatabase ==
    /\ Len(dbCalls) < MaxDbCalls
    /\ IF CacheHit
       THEN /\ dbCalls' = Append(dbCalls, [pc |-> "returned",
                                           client |-> cachedClient, db |-> cachedDb])
            /\ UNCHANGED mongoClients
       ELSE /\ mongoClients' = Append(mongoClients, "connecting")
            /\ dbCalls' = Append(dbCalls, [pc |-> "await connect",
                                           client |-> Len(mongoClients) + 1, db |-> 0])
    /\ UNCHANGED <<bookings, cachedClient, cachedDb>>
    /\ UNCHANGED <<relayVars, toolVars, codecVars, pageVars, upgradeVars, kbVars, sessionVars>>

\* client.connect() resolves: the call caches its client and Db and returns them
ConnectResolved(c) ==
    /\ dbCalls[c].pc = "await connect"
    /\ mongoClients' = [mongoClients EXCEPT ![dbCalls[c].client] = "connected"]
    /\ cachedClient' = dbCalls[c].client
    /\ cachedDb' = db(dbCalls[c].client)
    /\ dbCalls' = [dbCalls EXCEPT ![c] = [pc |-> "returned", client |-> @.client,
                                          db |-> db(@.client)]]
    /\ UNCHANGED bookings
    /\ UNCHANGED <<relayVars, toolVars, codecVars, pageVars, upgradeVars, kbVars, sessionVars>>

\* client.connect() rejects: the call throws to its caller, the cache is untouched
ConnectRejected(c) ==
    /\ dbCalls[c].pc = "await connect"
    /\ mongoClients' = [mongoClients EXCEPT ![dbCalls[c].client] = "failed"]
    /\ dbCalls' = [dbCalls EXCEPT ![c].pc = "threw"]
    /\ UNCHANGED <<bookings, cachedClient, cachedDb>>
    /\ UNCHANGED <<relayVars, toolVars, codecVars, pageVars, upgradeVars, kbVars, sessionVars>>

DbNext ==
    \/ ConnectToDatabase
    \/ \E c \in 1..Len(dbCalls) : ConnectResolved(c)
    \/ \E c \in 1..Len(dbCalls) : ConnectRejected(c)

DbSpec == Init /\ [][DbNext]_vars

(***************************************************************************)
(* server.on("upgrade") (src/server.ts).  A request is its URL, as path    *)
(* and search part, and whether it is a well-formed WebSocket handshake.   *)
(* wss.handleUpgrade answers a well-formed handshake with 101 and hands    *)
(* the WebSocket to its callback; it answers any other request with 400    *)
(* and destroys the socket.  A socket nobody answers stays open until its  *)
(* peer ends it.                                                           *)
(***************************************************************************)
MaxUpgrades == 3        \* upgrade requests the server receives

Urls ==
    { <<"/api/realtime", "">>, <<"/api/realtime", "?session=1">>,
      <<"/api/realtime/", "">>, <<"/_next/webpack-hmr", "">> }

UpgradeRequests == [url : Urls, handshake : {"well-formed", "malformed"}]

\* parse(req.url, true)
parse(url) == [pathname |-> url[1], search |-> url[2]]

\* wss.handleUpgrade(req, socket, head, (ws) => handleRealtimeConnection(ws))
handleUpgrade(req) ==
    IF req.handshake = "well-formed"
    THEN [socket |-> "upgraded", response |-> 101, session |-> TRUE]
    ELSE [socket |-> "destroyed", response |-> 400, session |-> FALSE]

\* what the listener does with the request's socket
OnUpgradeOutcome(req) ==
    IF parse(req.url).pathname = "/api/realtime"
    THEN handleUpgrade(req)
    ELSE [socket |-> "open", response |-> 0, session |-> FALSE]

\* server.on("upgrade")
OnUpgrade(req) ==
    /\ Len(upgrades) < MaxUpgrades
    /\ upgrades' = Append(upgrades, [req |-> req, socket |-> OnUpgradeOutcome(req).socket,
                                     response |-> OnUpgradeOutcome(req).response,
                                     session |-> OnUpgradeOutcome(req).session])
    /\ UNCHANGED <<relayVars, toolVars, storeVars, codecVars, pageVars, kbVars, sessionVars>>

\* the requester gives up on a socket that was never answered
UpgradePeerEnd(k) ==
    /\ upgrades[k].socket = "open"
    /\ upgrades' = [upgrades EXCEPT ![k].socket = "ended"]
    /\ UNCHANGED <<relayVars, toolVars, storeVars, codecVars, pageVars, kbVars, sessionVars>>

UpgradeNext ==
    \/ \E req \in UpgradeRequests : OnUpgrade(req)
    \/ \E k \in 1..Len(upgrades) : UpgradePeerEnd(k)

UpgradeSpec == Init /\ [][UpgradeNext]_vars
(***************************************************************************)
(* Several relay sessions in one process (handleRealtimeConnection called  *)
(* once per accepted client).  Session s is the s-th call; its clientWs is *)
(* the parameter of that call and its openaiWs the const the call creates, *)
(* so the handlers the call registers reach those two sockets and no       *)
(* other.  The sockets' lifecycles are reduced to what the handlers read.  *)
(***************************************************************************)
MaxSessions == 2        \* client connections accepted by the process
MaxSessionFrames == 2   \* frames received by all sessions together

SessionClientFrames == { JSONstringify(responseCreate) }

SessionUpstreamFrames ==
    { Written(FunctionCall(1, "getAllEmployees", JSONstringify(EmptyObj))),
      Written([type |-> "response.done"]) }

\* The frames received so far by all sessions
SessionFramesReceived ==
    Cardinality({e \in sessionWire : e.by = "received"})

\* a module-level variable would hold the socket of the latest session
openaiWsOfModuleScope(s) == Len(openaiWss)

\* The sockets a handler of session s reaches through its closure
clientWsOf(s) == s
openaiWsOf(s) == s

\* One entry of the sessions' record: session s received a frame ("received")
\* or its handler wrote one to socket k of the client or upstream side
SessionEntry(s, by, to, k, frame) ==
    [session |-> s, by |-> by, to |-> to, socket |-> k, frame |-> frame]

\* ws.send(frame) by a handler of session s
sessionSend(w, s, readyState, to, k, frame) ==
    IF readyState = "OPEN" THEN w \cup {SessionEntry(s, "relay", to, k, frame)} ELSE w

\* wss.handleUpgrade's callback: handleRealtimeConnection(ws)
HandleRealtimeConnection ==
    /\ Len(clientWss) < MaxSessions
    /\ clientWss' = Append(clientWss, "OPEN")
    /\ openaiWss' = Append(openaiWss, "CONNECTING")
    /\ UNCHANGED <<sessionWire, kbVars>>
    /\ UNCHANGED <<relayVars, toolVars, storeVars, upgradeVars, codecVars, pageVars>>

\* openaiWs.on("open") of session s
SessionOpenaiOpen(s) ==
    /\ openaiWss[s] = "CONNECTING"
    /\ openaiWss' = [openaiWss EXCEPT ![openaiWsOf(s)] = "OPEN"]
    /\ sessionWire' = sessionSend(sessionWire, s, "OPEN", "openai", openaiWsOf(s),
                                  JSONstringify(sessionUpdate))
    /\ UNCHANGED <<clientWss, kbVars>>
    /\ UNCHANGED <<relayVars, toolVars, storeVars, upgradeVars, codecVars, pageVars>>

\* clientWs.on("message") of session s
SessionClientMessage(s, frame) ==
    /\ clientWss[s] = "OPEN"
    /\ SessionFramesReceived < MaxSessionFrames
    /\ LET received == sessionWire \cup {SessionEntry(s, "received", "client", s, frame)}
           message == JSONparse(frame)
       IN  sessionWire' =
               IF Threw(message) THEN received
               ELSE IF openaiWss[openaiWsOf(s)] = "OPEN"
               THEN sessionSend(received, s, openaiWss[openaiWsOf(s)], "openai",
                                openaiWsOf(s), JSONstringify(message))
               ELSE received
    /\ UNCHANGED <<clientWss, openaiWss, kbVars>>
    /\ UNCHANGED <<relayVars, toolVars, storeVars, upgradeVars, codecVars, pageVars>>

\* The tool-call branch of session s
SessionToolWrites(w, s, msg) ==
    LET result == ToolOutcome(msg)
        k == openaiWsOf(s)
    IN  IF Threw(result) THEN w
        ELSE sessionSend(sessionSend(w, s, openaiWss[k], "openai", k,
                                     JSONstringify(functionCallOutput(msg.call_id, result))),
                         s, openaiWss[k], "openai", k, JSONstringify(responseCreate))

\* openaiWs.on("message") of session s
SessionOpenaiMessage(s, frame) ==
    /\ openaiWss[s] = "OPEN"
    /\ SessionFramesReceived < MaxSessionFrames
    /\ LET received == sessionWire \cup {SessionEntry(s, "received", "openai", s, frame)}
           forwarded == IF clientWss[clientWsOf(s)] = "OPEN"
                        THEN sessionSend(received, s, clientWss[clientWsOf(s)], "client",
                                         clientWsOf(s), frame)
                        ELSE received
           msg == JSONparse(frame)
       IN  sessionWire' =
               IF Threw(msg) THEN forwarded
               ELSE IF msg.type = FunctionCallDone THEN SessionToolWrites(forwarded, s, msg)
               ELSE forwarded
    /\ knowledgeBase' = OnMessageKnowledgeBase(knowledgeBase, frame)
    /\ UNCHANGED <<clientWss, openaiWss>>
    /\ UNCHANGED <<relayVars, toolVars, storeVars, upgradeVars, codecVars, pageVars>>

\* clientWs.on("close") of session s
SessionClientClose(s) ==
    /\ clientWss[s] \in {"OPEN", "CLOSING"}
    /\ clientWss' = [clientWss EXCEPT ![s] = "CLOSED"]
    /\ openaiWss' = IF openaiWss[openaiWsOf(s)] = "OPEN"
                    THEN [openaiWss EXCEPT ![openaiWsOf(s)] = "CLOSING"]
                    ELSE openaiWss
    /\ UNCHANGED <<sessionWire, kbVars>>
    /\ UNCHANGED <<relayVars, toolVars, storeVars, upgradeVars, codecVars, pageVars>>

\* openaiWs.on("close") of session s
SessionOpenaiClose(s) ==
    /\ openaiWss[s] \in {"CONNECTING", "OPEN", "CLOSING"}
    /\ openaiWss' = [openaiWss EXCEPT ![s] = "CLOSED"]
    /\ clientWss' = IF clientWss[clientWsOf(s)] = "OPEN"
                    THEN [clientWss EXCEPT ![clientWsOf(s)] = "CLOSING"]
                    ELSE clientWss
    /\ UNCHANGED <<sessionWire, kbVars>>
    /\ UNCHANGED <<relayVars, toolVars, storeVars, upgradeVars, codecVars, pageVars>>

SessionsNext ==
    \/ HandleRealtimeConnection
    \/ \E s \in 1..Len(clientWss) : SessionOpenaiOpen(s)
    \/ \E s \in 1..Len(clientWss), frame \in SessionClientFrames : SessionClientMessage(s, frame)
    \/ \E s \in 1..Len(clientWss), frame \in SessionUpstreamFrames : SessionOpenaiMessage(s, frame)
    \/ \E s \in 1..Len(clientWss) : SessionClientClose(s)
    \/ \E s \in 1..Len(clientWss) : SessionOpenaiClose(s)

SessionsSpec == Init /\ [][SessionsNext]_vars
(***************************************************************************)
(* Properties                                                              *)
(***************************************************************************)
Last(seq) == seq[Len(seq)]

RECURSIVE IsSubSeq(_, _)
IsSubSeq(a, b) ==
    IF a = <<>> THEN TRUE
    ELSE IF b = <<>> THEN FALSE
    ELSE IF Head(a) = Head(b) THEN IsSubSeq(Tail(a), Tail(b))
    ELSE IsSubSeq(a, Tail(b))

IsFunctionCall(frame) == frame.json /\ frame.val.type = FunctionCallDone

\* The function-call events received so far, in order
CallsReceived == SelectSeq(fromUpstream, IsFunctionCall)

\* What the tool-call branch has written so far, in order
ToolWrites == SelectSeq(wire, LAMBDA e : e.by = "tool")

IsToolOutput(e) ==
    /\ e.to = "openai"
    /\ e.by = "tool"
    /\ e.frame.val.type = "conversation.item.create"

\* The frame received in this step on a socket whose history is `before`/`after`
Received(before, after) == Len(after) = Len(before) + 1

\* C1: for every response.function_call_arguments.done received, the relay
\* writes upstream exactly one function_call_output item with the same
\* call_id and a serialized tool result, immediately followed by exactly one
\* response.create, whether the tool succeeded or failed.
C1_EveryCallAnswered ==
    /\ Len(ToolWrites) = 2 * Len(CallsReceived)
    /\ \A k \in 1..Len(CallsReceived) :
          /\ IsToolOutput(ToolWrites[2 * k - 1])
          /\ ToolWrites[2 * k - 1].frame.val.item.type = "function_call_output"
          /\ ToolWrites[2 * k - 1].frame.val.item.call_id = CallsReceived[k].val.call_id
          /\ "success" \in DOMAIN JSONparse(ToolWrites[2 * k - 1].frame.val.item.output)
          /\ ToolWrites[2 * k] = Sent("openai", JSONstringify(responseCreate), "tool")
    /\ \A j \in 1..Len(wire) :
          IsToolOutput(wire[j]) =>
              /\ j < Len(wire)
              /\ wire[j + 1] = Sent("openai", JSONstringify(responseCreate), "tool")

\* The required parameters the tool list gives for a tool name
RequiredOf(name) ==
    UNION { {tools[i].required[k] : k \in 1..Len(tools[i].required)} :
            i \in {n \in 1..Len(tools) : tools[n].name = name} }

Dispatched == "pending" \notin DOMAIN toolOutcome

\* C2: executeTool never throws: for every tool name and argument object it
\* returns a result object, and an unknown tool or a missing required
\* argument is returned as success:false with a message.
C2_ExecuteToolNeverThrows ==
    Dispatched =>
        /\ ~Threw(toolOutcome)
        /\ "success" \in DOMAIN toolOutcome
        /\ (\/ toolCall.name \notin {tools[i].name : i \in 1..Len(tools)}
            \/ \E p \in RequiredOf(toolCall.name) : ~Has(toolCall.args, p))
              => (~toolOutcome.success /\ "message" \in DOMAIN toolOutcome)

\* C3: once the client connection has closed, the upstream connection is not
\* open, whatever state it was in when the client closed.
C3_ClientClosedUpstreamNotOpen ==
    clientState = "CLOSED" => openaiState # "OPEN"

\* C4: when the upstream connection of an active session closes, the relay
\* closes the client connection, and the session ends with both closed.
C4_UpstreamCloseCascades ==
    /\ [](("open" \in openaiEvents /\ openaiState = "CLOSED") => clientState # "OPEN")
    /\ (("open" \in openaiEvents /\ openaiState = "CLOSED")
            ~> (clientState = "CLOSED" /\ openaiState = "CLOSED"))

\* The relay, not the client, began closing the client connection
C4_Witness ==
    /\ "open" \in openaiEvents
    /\ openaiState = "CLOSED"
    /\ clientState = "CLOSING"
    /\ "client" \notin peerGone
    /\ Len(fromUpstream) > 0

\* The upstream connection reported an error without ever having opened
DialFailed == "error" \in openaiEvents /\ "open" \notin openaiEvents

\* C5: if the upstream dial fails, the session never becomes active (the
\* upstream socket is closed, never opens and nothing was written to it) and
\* the client connection is closed by the relay.
C5_DialFailureClosesClient ==
    /\ [](DialFailed =>
            /\ openaiState = "CLOSED"
            /\ clientState \in {"CLOSING", "CLOSED"}
            /\ \A j \in 1..Len(wire) : wire[j].to # "openai")
    /\ [][DialFailed => DialFailed']_vars

C5_Witness ==
    /\ DialFailed
    /\ clientState = "CLOSING"
    /\ "client" \notin peerGone
    /\ "OpenAI WebSocket error" \in log

\* C6: if the upstream handshake is rejected at HTTP level, the rejection is
\* logged and the session terminates: the client connection is closed and no
\* open upstream connection remains.
C6_RejectedHandshakeTerminates ==
    ("unexpected-response" \in openaiEvents)
        ~> (/\ "OpenAI unexpected response" \in log
            /\ clientState = "CLOSED"
            /\ openaiState # "OPEN")

\* The session.update messages the relay itself has written
SessionUpdatesSent ==
    SelectSeq(wire, LAMBDA e : /\ e.to = "openai"
                               /\ e.by # "client"
                               /\ e.frame.val.type = "session.update")

\* C7: a session writes exactly one session.update of its own upstream, when
\* the upstream connection opens, carrying the full tool list; never a second.
C7_OneSessionUpdate ==
    /\ Len(SessionUpdatesSent) = (IF "open" \in openaiEvents THEN 1 ELSE 0)
    /\ \A k \in 1..Len(SessionUpdatesSent) :
          /\ SessionUpdatesSent[k].by = "open"
          /\ SessionUpdatesSent[k].frame.json
          /\ JSONparse(SessionUpdatesSent[k].frame).session.tools = tools

C7_Witness ==
    /\ Len(SessionUpdatesSent) = 1
    /\ Len(wire) >= 3
    /\ \E j \in 1..Len(wire) : wire[j].by = "client" /\ wire[j].frame.val.type = "response.create"
    /\ Len(CallsReceived) = 2

\* C8: a frame received from upstream while the client connection is open is
\* written to the client, unchanged, before anything the relay writes upstream
\* for it: the forward is the first write of the step and every later write of
\* the step goes upstream.
C8_ForwardFirst ==
    [][(Received(fromUpstream, fromUpstream') /\ clientState = "OPEN") =>
          /\ Len(wire') > Len(wire)
          /\ SubSeq(wire', 1, Len(wire)) = wire
          /\ wire'[Len(wire) + 1] = Sent("client", Last(fromUpstream'), "relay")
          /\ \A j \in (Len(wire) + 2)..Len(wire') : wire'[j].to = "openai"]_vars

C8_Witness ==
    \E j \in 1..(Len(wire) - 1) :
        /\ wire[j].to = "client"
        /\ IsFunctionCall(wire[j].frame)
        /\ IsToolOutput(wire[j + 1])

\* C9: a client frame that is not JSON is dropped: nothing is written and
\* neither connection changes state; a well-formed frame that arrives after it
\* while upstream is open is still forwarded.
C9_MalformedClientFrameDropped ==
    /\ [][(Received(fromClient, fromClient') /\ ~Last(fromClient').json) =>
            (wire' = wire /\ clientState' = clientState /\ openaiState' = openaiState)]_vars
    /\ [][(/\ Received(fromClient, fromClient')
           /\ Last(fromClient').json
           /\ openaiState = "OPEN"
           /\ \E i \in 1..Len(fromClient) : ~fromClient[i].json) =>
            (/\ Len(wire') = Len(wire) + 1
             /\ Last(wire').to = "openai"
             /\ Last(wire').frame.val = Last(fromClient').val)]_vars

C9_Witness ==
    /\ Len(fromClient) = 2
    /\ ~fromClient[1].json
    /\ fromClient[2].json
    /\ clientState = "OPEN"
    /\ openaiState = "OPEN"
    /\ Len(wire) > 0
    /\ Last(wire) = Sent("openai", JSONstringify(fromClient[2].val), "client")

\* The values the relay has forwarded upstream for the client, in order
ClientForwards ==
    LET w == SelectSeq(wire, LAMBDA e : e.by = "client")
    IN  [i \in 1..Len(w) |-> w[i].frame.val]

\* The values of the well-formed client frames received, in order
ClientValues ==
    LET f == SelectSeq(fromClient, LAMBDA frame : frame.json)
    IN  [i \in 1..Len(f) |-> f[i].val]

\* C10: a well-formed client frame received while upstream is open is written
\* upstream exactly once with the same content, and client messages reach
\* upstream in the order the client sent them.
C10_ClientForwardedOnceInOrder ==
    /\ [](/\ IsSubSeq(ClientForwards, ClientValues)
          /\ \A j \in 1..Len(wire) : wire[j].by = "client" => wire[j].to = "openai")
    /\ [][(Received(fromClient, fromClient') /\ Last(fromClient').json /\ openaiState = "OPEN")
            => (/\ ClientForwards' = Append(ClientForwards, Last(fromClient').val)
                /\ Len(wire') = Len(wire) + 1)]_vars
    /\ [][(fromClient' = fromClient) => (ClientForwards' = ClientForwards)]_vars

C10_Witness ==
    /\ Len(ClientForwards) = 2
    /\ ClientForwards[1] # ClientForwards[2]
    /\ ClientForwards = ClientValues
    /\ \E i \in 1..Len(fromClient) : ~fromClient[i].canon

(***************************************************************************)
(* Playback scheduler of the voice page.  A source records the context it  *)
(* was started on, the currentTime and the cursor read when it was         *)
(* scheduled, and the number of barge-ins before it (its epoch).           *)
(***************************************************************************)
End(source) == source.start + source.duration
Max(a, b) == IF a >= b THEN a ELSE b

\* C11: chunks scheduled on one AudioContext with no barge-in between them
\* do not overlap: every chunk starts at max(engine clock, cursor), and each
\* chunk starts no earlier than the end of the chunk scheduled before it
C11_SchedulerNonOverlap ==
    /\ \A i \in 1..Len(sources) :
        sources[i].start = Max(sources[i].currentTime, sources[i].cursor)
    /\ \A i \in 1..(Len(sources) - 1) :
        (sources[i].ctx = sources[i + 1].ctx /\ sources[i].epoch = sources[i + 1].epoch)
            => sources[i + 1].start >= End(sources[i])

\* C12: a chunk scheduled while the chunk before it (same AudioContext, no
\* barge-in between) has not finished starts exactly where that chunk ends
C12_GaplessPlayback ==
    \A i \in 1..(Len(sources) - 1) :
        (/\ sources[i].ctx = sources[i + 1].ctx
         /\ sources[i].epoch = sources[i + 1].epoch
         /\ sources[i + 1].currentTime <= End(sources[i]))
            => sources[i + 1].start = End(sources[i])

FirstOfEpoch(i) == \A j \in 1..(i - 1) : sources[j].epoch < sources[i].epoch

\* C13: after a speech_started message every buffer scheduled before it has
\* been stopped, the queue holds none of them, and the first chunk scheduled
\* afterwards starts at the engine clock
C13_BargeIn ==
    /\ \A i \in 1..Len(sources) : sources[i].epoch < bargeIns => sources[i].stopped
    /\ \A j \in 1..Len(audioQueue) : sources[audioQueue[j]].epoch = bargeIns
    /\ \A i \in 1..Len(sources) :
        (sources[i].epoch > 0 /\ FirstOfEpoch(i))
            => sources[i].start = sources[i].currentTime

\* a chunk interrupted before it finished, and the next chunk starting at the
\* clock, before the interrupted chunk would have ended
C13_Witness ==
    \E i \in 1..Len(sources) : \E j \in 1..(i - 1) :
        /\ sources[j].epoch < sources[i].epoch
        /\ sources[j].ctx = sources[i].ctx
        /\ sources[j].stopped
        /\ End(sources[j]) > sources[i].currentTime
        /\ sources[i].start = sources[i].currentTime

(***************************************************************************)
(* Codec                                                                   *)
(***************************************************************************)
Abs(n) == IF n < 0 THEN -n ELSE n
InUnitRange(x) == ~IsNaN(x) /\ x.num >= -x.den /\ x.num <= x.den

\* C14: for every sample x in [-1, 1], the value decoded from the 16-bit
\* encoding of x differs from x by at most 1/32767
C14_RoundTripError ==
    codecCall.op = "roundTrip" =>
        /\ ~Threw(codecResult)
        /\ Len(codecResult.float32) = Len(codecCall.input)
        /\ \A i \in 1..Len(codecCall.input) :
            LET x == codecCall.input[i]
                y == codecResult.float32[i]
            IN  InUnitRange(x) =>
                    Abs(y.num * x.den - x.num * y.den) <= (x.den * y.den) \div 32767

\* the sample -1 comes back as -32768/32767, which is 1/32767 away from it
C14_Witness ==
    /\ codecCall.op = "roundTrip"
    /\ codecCall.input = <<Rational(-SampleDen, SampleDen)>>
    /\ codecResult.float32 = <<Rational(-32768, 32767)>>

\* the signed 16-bit value stored little-endian at sample i of a buffer
StoredInt16(buffer, i) ==
    LET u == buffer[2 * i - 1] + 256 * buffer[2 * i]
    IN  IF u >= 32768 THEN u - 65536 ELSE u

\* C15: every input sample encodes without wrap-around: samples >= 1 give
\* 32767, samples <= -1 give -32768, negative samples in between are scaled
\* by 32768 and non-negative ones by 32767 (the fraction dropped)
C15_EncodeClamps ==
    codecCall.op = "floatTo16BitPCM" =>
        /\ Len(codecResult.buffer) = 2 * Len(codecCall.input)
        /\ \A i \in 1..Len(codecCall.input) :
            LET x == codecCall.input[i]
                v == StoredInt16(codecResult.buffer, i)
            IN  /\ v >= -32768 /\ v <= 32767
                /\ ~IsNaN(x) =>
                    /\ x.num >= x.den => v = 32767
                    /\ x.num <= -x.den => v = -32768
                    /\ (x.num < 0 /\ x.num > -x.den) => v = -((-x.num * 32768) \div x.den)
                    /\ (x.num >= 0 /\ x.num < x.den) => v = (x.num * 32767) \div x.den

\* a sample above 1.0 encoded to the largest value
C15_Witness ==
    /\ codecCall.op = "floatTo16BitPCM"
    /\ codecCall.input = <<Rational(2 * SampleDen, SampleDen)>>
    /\ StoredInt16(codecResult.buffer, 1) = 32767

\* C16: decoding a payload of n bytes never fails and yields ceil(n/2)
\* samples: an odd payload is padded with one zero byte, so its last sample
\* is its last byte over a zero high byte
C16_OddPayloadPadded ==
    (codecCall.op = "decode" /\ IsBase64(codecCall.input)) =>
        LET n == Len(atob(codecCall.input))
        IN  /\ ~Threw(codecResult)
            /\ Len(codecResult.float32) = (n + 1) \div 2
            /\ n % 2 = 1 =>
                codecResult.float32[(n + 1) \div 2] =
                    Rational(atob(codecCall.input)[n], 32767)

\* a payload of three bytes decoded to two samples
C16_Witness ==
    /\ codecCall.op = "decode"
    /\ IsBase64(codecCall.input)
    /\ Len(atob(codecCall.input)) = 3
    /\ ~Threw(codecResult)
    /\ Len(codecResult.float32) = 2

(***************************************************************************)
(* Capture                                                                 *)
(***************************************************************************)
ProducedWhileOpen == SelectSeq(produced, LAMBDA f : f.readyState = "OPEN")

\* C17: the capture callback sends an append event exactly for the frames
\* produced while its socket is OPEN, in order; a frame produced in any
\* other state is never sent
C17_CaptureOnlyWhenOpen ==
    /\ Len(wsSent) = Len(ProducedWhileOpen)
    /\ \A i \in 1..Len(wsSent) :
        /\ wsSent[i].readyState = "OPEN"
        /\ wsSent[i].ws = ProducedWhileOpen[i].ws
        /\ wsSent[i].data.val.type = "input_audio_buffer.append"
        /\ wsSent[i].data.val.audio =
            arrayBufferToBase64(floatTo16BitPCM(ProducedWhileOpen[i].inputData))

\* a frame dropped on a socket that is not open, beside a frame that was sent
C17_Witness ==
    /\ \E i \in 1..Len(produced) : produced[i].readyState # "OPEN"
    /\ Len(wsSent) > 0

(***************************************************************************)
(* Lookups of the dispatcher.  Matching is restated here letter by letter, *)
(* apart from toLowerCase and includes.                                    *)
(***************************************************************************)
SameLetter(c, d) == c = d \/ {c, d} = {"a", "A"} \/ {c, d} = {"b", "B"}
ContainsFolded(s, t) ==
    \E k \in 0..(Len(s) - Len(t)) : \A j \in 1..Len(t) : SameLetter(s[k + j], t[j])

Called(name, field) == toolCall.name = name /\ Has(toolCall.args, field)
MatchingEmployees(field, t) ==
    SelectSeq(employees, LAMBDA emp : ContainsFolded(emp[field], t))
MatchingServices(t) ==
    SelectSeq(aboutData.services,
              LAMBDA service : \/ ContainsFolded(service.title, t)
                               \/ ContainsFolded(service.description, t))
MatchingCategories(t) ==
    SelectSeq(faqData, LAMBDA cat : ContainsFolded(cat.title_highlight, t))

\* C18: getEmployeeByName with term t returns success:true with exactly the
\* employees whose name contains t, letter case ignored, when there are any,
\* and success:false with a non-empty message when there are none
C18_EmployeeByName ==
    Called("getEmployeeByName", "name") =>
        LET matching == MatchingEmployees("name", toolCall.args.name)
        IN  IF Len(matching) > 0
            THEN toolOutcome.success /\ toolOutcome.employees = matching
            ELSE ~toolOutcome.success /\ Len(toolOutcome.message) > 0

\* a term that several employees match, but not all
C18_Witness ==
    /\ Called("getEmployeeByName", "name")
    /\ toolOutcome.success
    /\ Len(toolOutcome.employees) > 1
    /\ Len(toolOutcome.employees) < Len(employees)

\* the name, designation and service lookups return every matching record
AllMatchesOfFilters ==
    /\ (Called("getEmployeeByName", "name")
            /\ Len(MatchingEmployees("name", toolCall.args.name)) > 0)
        => toolOutcome.employees = MatchingEmployees("name", toolCall.args.name)
    /\ (Called("getEmployeeByDesignation", "designation")
            /\ Len(MatchingEmployees("designation", toolCall.args.designation)) > 0)
        => toolOutcome.employees
               = MatchingEmployees("designation", toolCall.args.designation)
    /\ (Called("getServices", "serviceName") /\ toolCall.args.serviceName # <<>>
            /\ Len(MatchingServices(toolCall.args.serviceName)) > 0)
        => toolOutcome.services = MatchingServices(toolCall.args.serviceName)

\* C19 as stated: every lookup returns all matching records, and
\* getFAQsByCategory returns every category whose title contains the term
C19_AllMatchesReturned ==
    /\ AllMatchesOfFilters
    /\ Called("getFAQsByCategory", "category") =>
        LET matching == MatchingCategories(toolCall.args.category)
        IN  \A i \in 1..Len(matching) : \A k \in 1..Len(matching[i].faqs) :
                \E m \in 1..Len(toolOutcome.faqs) :
                    toolOutcome.faqs[m] = matching[i].faqs[k]

\* C19 amended: the name, designation and service lookups return all matching
\* records; getFAQsByCategory returns the first category, in file order,
\* whose title contains the term, with all of that category's FAQs
C19_FirstCategoryOnly ==
    /\ AllMatchesOfFilters
    /\ Called("getFAQsByCategory", "category") =>
        LET matching == MatchingCategories(toolCall.args.category)
        IN  Len(matching) > 0 =>
                /\ toolOutcome.success
                /\ toolOutcome.category = matching[1].title_highlight
                /\ toolOutcome.count = Len(matching[1].faqs)
                /\ toolOutcome.faqs = matching[1].faqs

\* a term contained in both category titles, answered with the first category
C19_Witness ==
    /\ Called("getFAQsByCategory", "category")
    /\ Len(MatchingCategories(toolCall.args.category)) > 1
    /\ toolOutcome.success
    /\ toolOutcome.category = faqData[1].title_highlight

ThreeStrings(args) ==
    /\ IsObject(args)
    /\ "email" \in DOMAIN args
    /\ args.name # Undefined /\ args.email # Undefined /\ args.phone # Undefined

\* C20: dispatching createBooking with name, email and phone persists one
\* booking with a creation time and returns success:true with its identifier
C20_BookingToolPersists ==
    (toolCall.name = "createBooking" /\ ThreeStrings(toolCall.args)) =>
        /\ toolOutcome.success
        /\ "bookingId" \in DOMAIN toolOutcome
        /\ \E i \in 1..Len(bookings) :
            /\ bookings[i].name = toolCall.args.name
            /\ bookings[i].email = toolCall.args.email
            /\ bookings[i].phone = toolCall.args.phone
            /\ "createdAt" \in DOMAIN bookings[i]

(***************************************************************************)
(* Relay: unknown tools, repeated calls, interception, forwarding after    *)
(* the client has gone                                                     *)
(***************************************************************************)
KnownTools == {tools[i].name : i \in 1..Len(tools)}

\* The failure the default branch of executeTool returns
UnknownTool(name) == [success |-> FALSE, message |-> <<"Unknown tool:", name>>]

\* The frame received in this step is a function call of an unknown tool
\* whose arguments are JSON
UnknownToolCallReceived ==
    /\ Received(fromUpstream, fromUpstream')
    /\ IsFunctionCall(Last(fromUpstream'))
    /\ Last(fromUpstream').val.name \notin KnownTools
    /\ Last(fromUpstream').val.arguments.json

\* C21: executeTool with a name that is not a known tool returns
\* success:false with a message and does not throw, for the arguments of
\* the call received as for null and for an empty argument object;
\* and when such a call arrives while upstream is open, the relay writes
\* upstream that failure as the function_call_output of the call, followed
\* directly by response.create, as the last two writes of the step.
C21_UnknownToolAnswered ==
    /\ [](\A name \in ToolNames \ KnownTools : \A args \in {Null, EmptyObj} :
            executeTool(name, args) = UnknownTool(name))
    /\ [][(UnknownToolCallReceived /\ openaiState = "OPEN") =>
            LET call == Last(fromUpstream').val
                n == Len(wire')
            IN  /\ executeTool(call.name, JSONparse(call.arguments)) = UnknownTool(call.name)
                /\ n >= Len(wire) + 2
                /\ SubSeq(wire', 1, Len(wire)) = wire
                /\ \A j \in (Len(wire) + 1)..(n - 2) : wire'[j].by = "relay"
                /\ wire'[n - 1] = Sent("openai",
                                       JSONstringify(functionCallOutput(call.call_id,
                                                                        UnknownTool(call.name))),
                                       "tool")
                /\ wire'[n] = Sent("openai", JSONstringify(responseCreate), "tool")]_vars

\* an unknown tool was called and its failure is on the wire, then response.create
C21_Witness ==
    /\ \E i \in 1..Len(fromUpstream) :
          /\ IsFunctionCall(fromUpstream[i])
          /\ fromUpstream[i].val.name = "noSuchTool"
    /\ \E j \in 1..(Len(wire) - 1) :
          /\ IsToolOutput(wire[j])
          /\ JSONparse(wire[j].frame.val.item.output) = UnknownTool("noSuchTool")
          /\ wire[j + 1] = Sent("openai", JSONstringify(responseCreate), "tool")


\* The function_call_output items written upstream for a call identifier
OutputsFor(id) ==
    SelectSeq(wire, LAMBDA e : IsToolOutput(e) /\ e.frame.val.item.call_id = id)

\* C24: the relay writes at most one function_call_output for a call_id,
\* also when upstream repeats the function-call event of that call_id.
C24_OneOutputPerCallId ==
    \A id \in CallIds : Len(OutputsFor(id)) <= 1

\* C25: the client never receives response.function_call_arguments.done: no
\* write to the client carries it.
C25_CallSignalNotForwarded ==
    \A j \in 1..Len(wire) : wire[j].to = "client" => ~IsFunctionCall(wire[j].frame)

\* The writes of this step
WritesOfStep(before, after) == SubSeq(after, Len(before) + 1, Len(after))

\* C26: a function call that arrives when the client connection has already
\* closed, with upstream open, is still dispatched, and a tool that returns
\* has its result written upstream as the function_call_output of the call,
\* followed by response.create; nothing is written to the client.
C26_NoCancelOnClientClose ==
    [][(/\ Received(fromUpstream, fromUpstream')
        /\ IsFunctionCall(Last(fromUpstream'))
        /\ clientState = "CLOSED"
        /\ openaiState = "OPEN") =>
          LET call == Last(fromUpstream').val
              result == ToolOutcome(call)
          IN  /\ "Tool call" \in log'
              /\ ~Threw(result) =>
                    WritesOfStep(wire, wire')
                        = << Sent("openai",
                                  JSONstringify(functionCallOutput(call.call_id, result)),
                                  "tool"),
                             Sent("openai", JSONstringify(responseCreate), "tool") >>]_vars

\* the client closed before upstream sent anything; the call was answered
C26_Witness ==
    /\ clientState = "CLOSED"
    /\ openaiState = "OPEN"
    /\ Len(CallsReceived) = 1
    /\ \A j \in 1..Len(wire) : wire[j].to = "openai"
    /\ Len(ToolWrites) = 2
    /\ IsToolOutput(ToolWrites[1])
    /\ JSONparse(ToolWrites[1].frame.val.item.output).success

\* A write that passes a frame on from one side to the other
IsForward(e) == e.by \in {"relay", "client"}

\* C27: once the client connection has closed the relay forwards nothing:
\* no step writes an upstream frame to the client or a client frame upstream.
C27_NoForwardAfterClientClose ==
    [][clientState = "CLOSED" =>
          \A j \in 1..Len(WritesOfStep(wire, wire')) : ~IsForward(WritesOfStep(wire, wire')[j])]_vars

\* upstream frames went by after the client had closed, none was passed on
C27_Witness ==
    /\ clientState = "CLOSED"
    /\ openaiState = "OPEN"
    /\ Len(fromUpstream) = 2
    /\ Len(CallsReceived) = 0
    /\ \A j \in 1..Len(wire) : ~IsForward(wire[j])

\* C28: an upstream payload that is not JSON is written to the client when
\* the client is open and has no other effect: nothing is written upstream,
\* no tool is dispatched, and neither connection changes state.
C28_BinaryUpstreamForwardedOnly ==
    [][(Received(fromUpstream, fromUpstream') /\ ~Last(fromUpstream').json) =>
          /\ WritesOfStep(wire, wire')
                = (IF clientState = "OPEN"
                   THEN << Sent("client", Last(fromUpstream'), "relay") >>
                   ELSE << >>)
          /\ log' = log
          /\ clientState' = clientState
          /\ openaiState' = openaiState]_vars

\* a payload that is not JSON reached the open client; upstream got nothing for it
C28_Witness ==
    /\ clientState = "OPEN"
    /\ openaiState = "OPEN"
    /\ Len(fromUpstream) = 1
    /\ ~fromUpstream[1].json
    /\ Len(wire) = 2
    /\ wire[2] = Sent("client", fromUpstream[1], "relay")


(***************************************************************************)
(* Playback schedule of the voice page: the cursor at a barge-in and the   *)
(* contents of the queue                                                   *)
(***************************************************************************)
\* This step handled input_audio_buffer.speech_started
BargedIn == bargeIns' = bargeIns + 1

\* This step scheduled a chunk
Scheduled == Len(sources') = Len(sources) + 1

\* after every scheduling step the cursor is not smaller than the clock the
\* step read
CursorNotBehindClock ==
    [][Scheduled => nextStartTime' >= Last(sources').currentTime]_vars

\* C29 as stated: speech_started sets the cursor to the clock of the engine
\* at that moment, and after every scheduling step the cursor is not smaller
\* than the clock read during that step
C29_CursorResetToClock ==
    /\ [][BargedIn => nextStartTime' = contexts[audioContextRef].currentTime]_vars
    /\ CursorNotBehindClock

\* C29 amended: speech_started sets the cursor to 0, whatever the clock, so
\* that the next chunk starts at the clock read when it is scheduled; and
\* after every scheduling step the cursor is not smaller than the clock read
\* during that step
C29_CursorResetToZero ==
    /\ [][BargedIn => nextStartTime' = 0]_vars
    /\ [][(Scheduled /\ nextStartTime = 0) =>
            Last(sources').start = Last(sources').currentTime]_vars
    /\ CursorNotBehindClock

\* a barge-in with the clock past 0 left the cursor at 0, and the next chunk
\* was scheduled at the clock
C29_Witness ==
    /\ bargeIns = 1
    /\ Len(sources) = 2
    /\ sources[1].stopped
    /\ sources[2].epoch = 1
    /\ sources[2].cursor = 0
    /\ sources[2].currentTime > 0
    /\ sources[2].start = sources[2].currentTime
    /\ nextStartTime >= contexts[sources[2].ctx].currentTime

\* A source whose buffer has played to its end
Finished(source) == End(source) <= contexts[source.ctx].currentTime

InQueue(i) == \E j \in 1..Len(audioQueue) : audioQueue[j] = i

\* C30: the queue holds exactly the sources that were scheduled and have
\* neither been stopped nor finished playing.
C30_QueueHoldsUnfinished ==
    \A i \in 1..Len(sources) :
        InQueue(i) <=> (~sources[i].stopped /\ ~Finished(sources[i]))


(***************************************************************************)
(* Upgrade requests and the datastore handle                               *)
(***************************************************************************)
\* C22: an upgrade request whose path is not /api/realtime is rejected: no
\* relay session is created for it, and its socket is not left open and
\* unanswered.
C22_OtherPathRejected ==
    \A k \in 1..Len(upgrades) :
        parse(upgrades[k].req.url).pathname # "/api/realtime" =>
            /\ ~upgrades[k].session
            /\ upgrades[k].socket # "open"
            /\ upgrades[k].response # 0

\* C23: after any sequence of connectToDatabase calls, overlapping ones
\* included, at most one MongoClient has been constructed and every call
\* that returned received the same client and the same Db.
C23_OneHandlePerProcess ==
    /\ Len(mongoClients) <= 1
    /\ \A c, d \in 1..Len(dbCalls) :
          (dbCalls[c].pc = "returned" /\ dbCalls[d].pc = "returned") =>
              /\ dbCalls[c].client = dbCalls[d].client
              /\ dbCalls[c].db = dbCalls[d].db


(***************************************************************************)
(* Who changes the playback schedule                                       *)
(***************************************************************************)
\* The cursor or the queue differs after this step
ScheduleChanged == nextStartTime' # nextStartTime \/ audioQueue' # audioQueue

\* This step ran ws.onopen of some socket
Opened == \E k \in 1..Len(sockets) : sockets[k] = "CONNECTING" /\ sockets'[k] = "OPEN"

\* This step ran the capture callback
Captured == Len(produced') = Len(produced) + 1

\* C31 as stated: the cursor and the queue change only in steps of the
\* message handler (a chunk scheduled or a speech_started handled); the open
\* callback, the close and cleanup path, the stop action and the capture
\* callback leave them unchanged
C31_OnlyMessagesChangeSchedule ==
    [][ScheduleChanged => (Scheduled \/ BargedIn)]_vars

\* C31 amended: the cursor and the queue change in steps of the message
\* handler, in ws.onopen, which sets the cursor to 0 and leaves the queue,
\* and in cleanup (on close and on stop), which stops the queued sources and
\* empties the queue and leaves the cursor; the capture callback changes
\* neither
C31_ScheduleWriters ==
    /\ [][ScheduleChanged =>
            \/ Scheduled
            \/ BargedIn
            \/ (Opened /\ nextStartTime' = 0 /\ audioQueue' = audioQueue)
            \/ (/\ ~Opened
                /\ audioQueue' = <<>>
                /\ sources' = StopAll(sources, audioQueue)
                /\ nextStartTime' = nextStartTime)]_vars
    /\ [][Opened => nextStartTime' = 0 /\ audioQueue' = audioQueue]_vars
    /\ [][Captured => ~ScheduleChanged]_vars

\* cleanup emptied the queue of a chunk that no barge-in had stopped, and
\* left the cursor at the end of that chunk
C31_Witness ==
    /\ bargeIns = 0
    /\ Len(sources) = 1
    /\ sources[1].stopped
    /\ audioQueue = <<>>
    /\ nextStartTime = End(sources[1])
    /\ nextStartTime > 0
    /\ Len(produced) > 0


(***************************************************************************)
(* Tool handlers: FAQ search, the employee listing, the advertised tools   *)
(***************************************************************************)
\* Every FAQ whose question or answer contains t, letter case ignored, with
\* the title of its category
MatchingFaqs(t) ==
    UNION { { [category |-> faqData[i].title_highlight,
               question |-> faqData[i].faqs[k].question,
               answer |-> faqData[i].faqs[k].answer] :
                k \in { n \in 1..Len(faqData[i].faqs) :
                          \/ ContainsFolded(faqData[i].faqs[n].question, t)
                          \/ ContainsFolded(faqData[i].faqs[n].answer, t) } } :
            i \in 1..Len(faqData) }

\* C32: searchFAQ with term t returns exactly the FAQs, of all categories,
\* whose question or answer contains t, letter case ignored, each once and
\* with the title of its category, and count is their number; when there are
\* none it returns success:false with a message.
C32_SearchFAQ ==
    Called("searchFAQ", "query") =>
        LET matching == MatchingFaqs(toolCall.args.query)
        IN  IF matching = {}
            THEN /\ ~toolOutcome.success
                 /\ "message" \in DOMAIN toolOutcome
                 /\ Len(toolOutcome.message) > 0
            ELSE /\ toolOutcome.success
                 /\ {toolOutcome.faqs[m] : m \in 1..Len(toolOutcome.faqs)} = matching
                 /\ Len(toolOutcome.faqs) = Cardinality(matching)
                 /\ toolOutcome.count = Len(toolOutcome.faqs)

\* a term found in an answer only, and in both categories
C32_Witness ==
    /\ Called("searchFAQ", "query")
    /\ toolOutcome.success
    /\ toolOutcome.count > 1
    /\ toolOutcome.count < 3
    /\ \E m, n \in 1..Len(toolOutcome.faqs) :
          toolOutcome.faqs[m].category # toolOutcome.faqs[n].category
    /\ \E m \in 1..Len(toolOutcome.faqs) :
          ~ContainsFolded(toolOutcome.faqs[m].question, toolCall.args.query)

\* C33: getAllEmployees succeeds whatever its arguments and returns one entry
\* per employee, in directory order, with the fields name, designation and
\* email and no other, and count is the size of the directory.
C33_AllEmployeesSummary ==
    (Dispatched /\ toolCall.name = "getAllEmployees") =>
        /\ toolOutcome.success
        /\ toolOutcome.count = Len(employees)
        /\ Len(toolOutcome.employees) = Len(employees)
        /\ \A i \in 1..Len(employees) :
              /\ DOMAIN toolOutcome.employees[i] = {"name", "designation", "email"}
              /\ toolOutcome.employees[i].name = employees[i].name
              /\ toolOutcome.employees[i].designation = employees[i].designation
              /\ toolOutcome.employees[i].email = employees[i].email

\* the listing was asked for with null arguments
C33_Witness ==
    /\ toolCall.name = "getAllEmployees"
    /\ toolCall.args = Null
    /\ toolOutcome.success
    /\ toolOutcome.count = Len(employees)
    /\ "phone" \in DOMAIN employees[1]

\* The tool names session.update carries upstream
AdvertisedNames ==
    {sessionUpdate.session.tools[i].name : i \in 1..Len(sessionUpdate.session.tools)}

\* executeTool answered from its default branch
AnsweredUnknown ==
    /\ "message" \in DOMAIN toolOutcome
    /\ toolOutcome.message[1] = "Unknown tool:"

\* C38: a tool name is advertised in session.update exactly when executeTool
\* does not answer it with "Unknown tool".
C38_AdvertisedEqualsHandled ==
    Dispatched => (toolCall.name \in AdvertisedNames <=> ~AnsweredUnknown)

\* an advertised tool was dispatched and answered by its own case
C38_Witness ==
    /\ toolCall.name = "getCompanyInfo"
    /\ toolCall.name \in AdvertisedNames
    /\ toolOutcome.success
    /\ "company" \in DOMAIN toolOutcome


(***************************************************************************)
(* Relay: order of the upstream writes, writes on sockets that are not     *)
(* open                                                                    *)
(***************************************************************************)
\* What the relay has written upstream, in order
UpstreamWrites == SelectSeq(wire, LAMBDA e : e.to = "openai")

\* C36: the first message the relay writes upstream is its session.update;
\* a client message received while upstream is connecting writes nothing,
\* and the open handler writes the session.update and nothing that was
\* received before.
C36_SessionUpdateFirst ==
    /\ [](Len(UpstreamWrites) > 0 =>
            UpstreamWrites[1] = Sent("openai", JSONstringify(sessionUpdate), "open"))
    /\ [][(Received(fromClient, fromClient') /\ openaiState = "CONNECTING") =>
            wire' = wire]_vars
    /\ [][(openaiState = "CONNECTING" /\ openaiState' = "OPEN") =>
            wire' = Append(wire, Sent("openai", JSONstringify(sessionUpdate), "open"))]_vars

\* a well-formed client message came before upstream opened, and a second
\* one after: only the second was forwarded, behind the session.update
C36_Witness ==
    /\ Len(fromClient) = 2
    /\ fromClient[1].json
    /\ fromClient[2].json
    /\ Len(UpstreamWrites) = 2
    /\ UpstreamWrites[1].by = "open"
    /\ UpstreamWrites[2] = Sent("openai", JSONstringify(fromClient[2].val), "client")
    /\ fromClient[1].val # fromClient[2].val
\* C37: the relay never calls send() with a forwarded message, a tool result
\* or a response.create on a connection that is not open.
C37_WritesOnlyWhileOpen ==
    discarded = <<>>


(***************************************************************************)
(* Range of the decoded samples                                            *)
(***************************************************************************)
\* C39: every sample decoded on the playback path lies in [-1, 1], for every
\* 16-bit value of the payload, -32768 included.
C39_DecodedInUnitRange ==
    (codecCall.op = "decode" /\ ~Threw(codecResult)) =>
        \A i \in 1..Len(codecResult.float32) : InUnitRange(codecResult.float32[i])


(***************************************************************************)
(* The knowledge base and the independence of sessions                     *)
(***************************************************************************)
\* The tool results the sessions have written upstream
SessionToolOutputs ==
    {e \in sessionWire : /\ e.by = "relay"
                         /\ e.to = "openai"
                         /\ e.frame.val.type = "conversation.item.create"}

SessionEntriesOfStep == sessionWire' \ sessionWire

\* C35: whatever a session's handlers write goes to that session's own
\* clientWs or openaiWs, in the step in which that session received the
\* frame or opened; and a step that changes the state of one session's
\* sockets changes no other session's.
C35_SessionsIndependent ==
    /\ [](\A e \in sessionWire : e.socket = e.session)
    /\ [][\A e, f \in SessionEntriesOfStep : e.session = f.session]_vars
    /\ [][\A s, t \in 1..Len(clientWss) :
            (s # t /\ (clientWss'[s] # clientWss[s] \/ openaiWss'[s] # openaiWss[s]))
                => (clientWss'[t] = clientWss[t] /\ openaiWss'[t] = openaiWss[t])]_vars

\* both sessions relayed a frame; the first has closed, the second is open
C35_Witness ==
    /\ Len(clientWss) = 2
    /\ clientWss[1] = "CLOSED"
    /\ openaiWss[1] = "CLOSED"
    /\ clientWss[2] = "OPEN"
    /\ openaiWss[2] = "OPEN"
    /\ \E e, f \in sessionWire :
          /\ e.by = "relay" /\ e.to = "client" /\ e.session = 1
          /\ f.by = "relay" /\ f.to = "client" /\ f.session = 2


====
